---- MODULE Spec2Model ----
(***************************************************************************)
(* Model of the virtual portfolio engine (VirtualTrader, src/ai_trader.py) *)
(* and of the components that drive it.                                    *)
(*                                                                         *)
(* Units.  Prices are whole currency units.  Money (balance, cost,         *)
(* revenue, fee) is kept in thousandths of a currency unit, so that the    *)
(* fee of 0.003 x cost is an exact integer.  Confidences are hundredths.   *)
(* A budget that the code keeps as a real number is floored to a whole     *)
(* thousandth: the code only compares a budget with price x 10 and takes   *)
(* int(budget / price), and both give the same answer for the floored      *)
(* budget because the price is a whole number of thousandths.              *)
(* avg_price is an exact fraction [n, d] in lowest terms.                  *)
(***************************************************************************)
EXTENDS Integers, Sequences, FiniteSets, TLC

(***************************************************************************)
(* Bounds of the model.                                                    *)
(***************************************************************************)
MaxCycles == 3
MaxRestarts == 1
MaxOrders == 3
MaxBotCycles == 2
MaxBars == 3
MaxPicks == 2
ChurnRounds == 50
QuietCycles == 100
MaxTime == 3600
LowBalance == 2230
HighBalance == 12000

InitialBalances == {LowBalance, HighBalance}
Tickers == {"SBER"}
OrderTickers == {"SBER", "GAZP", "LKOH"}
Prices == {94, 100, 114, 120}
OrderPrices == {94, 100}

(***************************************************************************)
(* Program constants.                                                      *)
(***************************************************************************)
Milli == 1000
max_position_size_pct == 45
min_confidence == 50
hold_min_confidence == 80
trade_fee_milli == 3
trailing_stop_pct == 5
stop_loss_pct == 5
history_cache_ttl == 3600
sell_rsi_overbought == 80
sell_rsi_fraction_pct == 30
sell_ma5_fraction_pct == 40
rsi_entry_limit == 70
invest_fraction_pct == 80
hold_budget_pct == 20
min_invest_capital == 1000
min_lot_shares == 10
safety_factor_pct == 90
legacy_fraction_pct == 30
max_candidates == 7
min_history_bars == 20
trades_kept == 100
snapshots_kept == 50
performance_cap == 100
NoPrice == 0

VARIABLES balance, portfolio, highest_price, trades, performance_history,
          is_trading, price_history_cache, cycles,
          initial_balance, disk, market, history, now, restarts, observed,
          threads, bot_data, backtest, aggregator

traderVars == <<balance, portfolio, highest_price, trades, performance_history,
                is_trading, price_history_cache, cycles, initial_balance>>
envVars == <<market, history, now>>
auxVars == <<threads, bot_data, backtest, aggregator>>
vars == <<balance, portfolio, highest_price, trades, performance_history,
          is_trading, price_history_cache, cycles,
          initial_balance, disk, market, history, now, restarts, observed,
          threads, bot_data, backtest, aggregator>>

(***************************************************************************)
(* Arithmetic helpers.                                                     *)
(***************************************************************************)
Min2(a, b) == IF a <= b THEN a ELSE b
Max2(a, b) == IF a >= b THEN a ELSE b

RECURSIVE GCD(_, _)
GCD(a, b) == IF b = 0 THEN a ELSE GCD(b, a % b)

\* floor(x * n / d) for x >= 0, n >= 0, d > 0, the fraction reduced first
FracFloor(x, n, d) ==
    LET g == GCD(n, d) IN (x * (n \div g)) \div (d \div g)

\* the fraction n/d in lowest terms (d > 0, n >= 0)
Frac(n, d) == LET g == GCD(n, d) IN [n |-> n \div g, d |-> d \div g]

\* variant that rounds the share count up
IntPctRoundedUp(shares, pct) == (shares * pct + 99) \div 100

\* int(shares * pct / 100)
IntPct(shares, pct) == (shares * pct) \div 100

RECURSIVE SumSeq(_)
SumSeq(s) == IF s = <<>> THEN 0 ELSE Head(s) + SumSeq(Tail(s))

LastN(s, n) == IF Len(s) <= n THEN s ELSE SubSeq(s, Len(s) - n + 1, Len(s))

(***************************************************************************)
(* The portfolio dict: a sequence of entries in insertion order, one per   *)
(* ticker.  highest_price and price_history_cache are functions whose      *)
(* domain is the set of keys present.                                      *)
(***************************************************************************)
Held(p, t) == \E i \in DOMAIN p : p[i].ticker = t
PosOf(p, t) == p[CHOOSE i \in DOMAIN p : p[i].ticker = t]
SharesOf(p, t) == IF Held(p, t) THEN PosOf(p, t).shares ELSE 0
PutPos(p, t, sh, avg) ==
    LET e == [ticker |-> t, shares |-> sh, avg_price |-> avg] IN
    IF Held(p, t) THEN [i \in DOMAIN p |-> IF p[i].ticker = t THEN e ELSE p[i]]
    ELSE Append(p, e)
DelPos(p, t) == SelectSeq(p, LAMBDA e : e.ticker # t)
Keys(p) == {p[i].ticker : i \in DOMAIN p}

MapPut(f, k, v) == [x \in (DOMAIN f) \cup {k} |-> IF x = k THEN v ELSE f[x]]
MapPop(f, k) == [x \in (DOMAIN f) \ {k} |-> f[x]]
EmptyMap == [x \in {} |-> 0]

Datetime(t) == [kind |-> "datetime", at |-> t]
NoAmount == -1
NoShares == -1
NaN == -1
NoDf == [bars |-> 0, MA5 |-> 0, MA20 |-> 0, RSI |-> 0]

(***************************************************************************)
(* IndicatorEngine: _get_history_df.  hist is what the history             *)
(* collaborator returns now (bars = number of bars, and the indicators of  *)
(* the last row); the result is the frame handed to the caller (NoDf for   *)
(* None) and the cache after the call.                                     *)
(***************************************************************************)
\* variant for which an entry exactly one TTL old is still fresh
CacheFreshInclusive(cache, ticker, clock) ==
    ticker \in DOMAIN cache /\ clock - cache[ticker].time <= history_cache_ttl

\* the cache check: an entry for the ticker younger than the TTL
CacheFresh(cache, ticker, clock) ==
    ticker \in DOMAIN cache /\ clock - cache[ticker].time < history_cache_ttl

\* fetched tells whether stock_provider.get_history was called
GetHistoryDf(cache, ticker, hist, clock) ==
    IF CacheFresh(cache, ticker, clock)
    THEN [df |-> cache[ticker].df, cache |-> cache, fetched |-> FALSE]
    ELSE IF hist[ticker].bars < min_history_bars
         THEN [df |-> NoDf, cache |-> cache, fetched |-> TRUE]
         ELSE [df |-> hist[ticker],
               cache |-> MapPut(cache, ticker, [time |-> clock, df |-> hist[ticker]]),
               fetched |-> TRUE]

\* variant that does not look at the RSI limit
CheckTechnicalFiltersNoLimit(df) == df # NoDf /\ df.RSI # NaN

\* _check_technical_filters: the allow flag (tech_conf is 100 exactly when allowed)
CheckTechnicalFilters(df) ==
    IF df = NoDf THEN FALSE
    ELSE IF df.RSI = NaN THEN FALSE
    ELSE df.RSI < rsi_entry_limit

(***************************************************************************)
(* _get_current_prices and get_portfolio_value.  A price map gives NoPrice *)
(* to a ticker that is not in the dict.                                    *)
(***************************************************************************)
GetCurrentPrices(mkt) == mkt

RECURSIVE PositionsValue(_, _)
PositionsValue(p, prices) ==
    IF p = <<>> THEN 0
    ELSE (IF prices[Head(p).ticker] # NoPrice
          THEN Head(p).shares * prices[Head(p).ticker] * Milli ELSE 0)
         + PositionsValue(Tail(p), prices)

GetPortfolioValue(bal, p, prices) == bal + PositionsValue(p, prices)

(***************************************************************************)
(* OrderExecutor: _buy.  st is the trader state the call works on; fresh   *)
(* is the price map that get_portfolio_value fetches inside the call.      *)
(***************************************************************************)
\* variant without the 0.9 safety fallback
BuyFallbackNever(bal, available, price) == FALSE

BuyFallback(bal, available, price) ==
    LET shares1 == available \div (price * Milli)
        cost1 == shares1 * price * Milli
        fee1 == shares1 * price * trade_fee_milli
    IN cost1 + fee1 > bal

\* variant that rounds the share count up
BuySharesRoundedUp(bal, available, price) ==
    (available + price * Milli - 1) \div (price * Milli)

BuyShares(bal, available, price) ==
    LET shares1 == available \div (price * Milli)
    IN IF BuyFallback(bal, available, price)
       THEN FracFloor(bal, safety_factor_pct, 100) \div (price * Milli)
       ELSE shares1

\* variant without the position cap
MaxAllowedUncapped(current_value, current_position_value) == current_value

\* max_position_value - current_position_value
MaxAllowed(current_value, current_position_value) ==
    (current_value * max_position_size_pct - current_position_value * 100) \div 100

BuyAvailable(bal, p, ticker, price, confidence, max_amount, fresh) ==
    LET current_value == GetPortfolioValue(bal, p, fresh)
        current_position_value == SharesOf(p, ticker) * price * Milli
        max_allowed == MaxAllowed(current_value, current_position_value)
        requested == IF max_amount = NoAmount
                     THEN FracFloor(bal, legacy_fraction_pct * confidence, 100 * 100)
                     ELSE max_amount
    IN Min2(Min2(requested, max_allowed), bal)

PositionCapReached(bal, p, ticker, price, fresh) ==
    SharesOf(p, ticker) * price * Milli * 100
        >= GetPortfolioValue(bal, p, fresh) * max_position_size_pct

\* variant that puts the purchase fee into the cost basis
NewAvgPriceWithFee(old_shares, old_avg, shares, price) ==
    Frac(Milli * (old_shares * old_avg.n + shares * price * old_avg.d)
             + shares * price * trade_fee_milli * old_avg.d,
         Milli * old_avg.d * (old_shares + shares))

NewAvgPrice(old_shares, old_avg, shares, price) ==
    Frac(old_shares * old_avg.n + shares * price * old_avg.d,
         old_avg.d * (old_shares + shares))

\* variant that accepts any lot
LotTooSmallNever(available, price) == FALSE

\* "if available < price * 10"
LotTooSmall(available, price) == available < price * Milli * min_lot_shares

Buy(st, ticker, price, confidence, max_amount, fresh, clock) ==
    LET available == BuyAvailable(st.balance, st.portfolio, ticker, price,
                                  confidence, max_amount, fresh)
        shares == BuyShares(st.balance, available, price)
        cost == shares * price * Milli
        fee == shares * price * trade_fee_milli
        new_balance == st.balance - (cost + fee)
        new_portfolio ==
            IF Held(st.portfolio, ticker)
            THEN LET old == PosOf(st.portfolio, ticker) IN
                 PutPos(st.portfolio, ticker, old.shares + shares,
                        NewAvgPrice(old.shares, old.avg_price, shares, price))
            ELSE PutPos(st.portfolio, ticker, shares, [n |-> price, d |-> 1])
        trade == [timestamp |-> Datetime(clock), ticker |-> ticker, action |-> "BUY",
                  shares |-> shares, price |-> price, cost |-> cost, fee |-> fee,
                  confidence |-> confidence, balance_after |-> new_balance]
    IN IF PositionCapReached(st.balance, st.portfolio, ticker, price, fresh) THEN st
       ELSE IF LotTooSmall(available, price) THEN st
       ELSE IF shares = 0 THEN st
       ELSE [st EXCEPT !.balance = new_balance,
                       !.portfolio = new_portfolio,
                       !.trades = Append(st.trades, trade)]

(***************************************************************************)
(* OrderExecutor: _sell.                                                   *)
(***************************************************************************)
\* int(total_shares * 0.7) in binary floating point: 0.7 is stored as a
\* double just below 7/10, and for these share counts (all there are below
\* 400) the rounded product lies below the whole number, so int() gives one
\* share less than the floor of 70%.  int(n * 0.5), int(n * 0.4) and
\* int(n * 0.3) are the exact floors for every n below 400.
SeventyPctShort == {90, 170, 180, 330, 340, 350, 360}

IntSeventyPct(total_shares) ==
    IF total_shares \in SeventyPctShort THEN IntPct(total_shares, 70) - 1
    ELSE IntPct(total_shares, 70)

SellShares(total_shares, confidence, shares, sell_all) ==
    IF sell_all THEN total_shares
    ELSE IF shares # NoShares THEN Min2(shares, total_shares)
    ELSE IF confidence > 90 THEN total_shares
    ELSE IF confidence > 70 THEN IntSeventyPct(total_shares)
    ELSE IntPct(total_shares, 50)

\* variant that keeps the entry when the shares reach zero
PositionClosedStrict(sell_shares, total_shares) == sell_shares > total_shares

PositionClosed(sell_shares, total_shares) == sell_shares >= total_shares

\* variant that credits the revenue without taking the fee off
SellProceedsGross(revenue, fee) == revenue

\* "self.balance += (revenue - fee)"
SellProceeds(revenue, fee) == revenue - fee

Sell(st, ticker, price, confidence, reason, shares, sell_all, clock) ==
    IF ~Held(st.portfolio, ticker) THEN st
    ELSE
    LET pos == PosOf(st.portfolio, ticker)
        total_shares == pos.shares
        avg_price == pos.avg_price
        sell_shares == SellShares(total_shares, confidence, shares, sell_all)
        revenue == sell_shares * price * Milli
        fee == sell_shares * price * trade_fee_milli
        profit == [n |-> (price * avg_price.d - avg_price.n) * sell_shares,
                   d |-> avg_price.d]
        new_balance == st.balance + SellProceeds(revenue, fee)
        trade == [timestamp |-> Datetime(clock), ticker |-> ticker, action |-> "SELL",
                  shares |-> sell_shares, price |-> price, revenue |-> revenue,
                  fee |-> fee, profit |-> profit, confidence |-> confidence,
                  balance_after |-> new_balance, reason |-> reason]
    IN IF sell_shares = 0 THEN st
       ELSE [st EXCEPT
               !.balance = new_balance,
               !.portfolio = IF PositionClosed(sell_shares, total_shares)
                             THEN DelPos(st.portfolio, ticker)
                             ELSE PutPos(st.portfolio, ticker,
                                         total_shares - sell_shares, avg_price),
               !.highest_price = IF PositionClosed(sell_shares, total_shares)
                                 THEN MapPop(st.highest_price, ticker)
                                 ELSE st.highest_price,
               !.trades = Append(st.trades, trade)]
(***************************************************************************)
(* RiskManager: _check_positions.  One position of the snapshot            *)
(* list(self.portfolio.items()) is evaluated by CheckPosition; the rules   *)
(* that fire are recorded in st.evaluated for the properties below.        *)
(***************************************************************************)
\* variant with the MA20 rule switched off
Ma20BreakDisabled(df, current_price) == FALSE

Ma20Break(df, current_price) == current_price < df.MA20

TrailingStopHit(hwm, current_price) ==
    current_price * 100 <= hwm * (100 - trailing_stop_pct)

\* variant with a 10% stop-loss threshold
StopLossHitAtTen(avg_price, current_price) ==
    current_price * avg_price.d * 100 < avg_price.n * (100 - 2 * stop_loss_pct)

StopLossHit(avg_price, current_price) ==
    current_price * avg_price.d * 100 < avg_price.n * (100 - stop_loss_pct)

\* variant that forgets the earlier maximum
NewHighestForgets(hp, ticker, current_price) == current_price

NewHighest(hp, ticker, current_price) ==
    IF ticker \notin DOMAIN hp THEN current_price
    ELSE Max2(hp[ticker], current_price)

CheckPosition(st, entry, current_prices, hist, clock) ==
    LET ticker == entry.ticker
        current_price == current_prices[ticker]
        avg_price == entry.avg_price
        shares == entry.shares
        got == GetHistoryDf(st.cache, ticker, hist, clock)
        df == got.df
        st0 == [st EXCEPT !.cache = got.cache]
        \* MA5 break: partial sale
        ma5_n == IntPct(shares, sell_ma5_fraction_pct)
        st1 == IF current_price < df.MA5 /\ ma5_n > 0
               THEN Sell(st0, ticker, current_price, 80, "ma5_break", ma5_n, FALSE, clock)
               ELSE st0
        \* RSI overbought: partial sale, of the share count read before rule 2
        rsi_n == IntPct(shares, sell_rsi_fraction_pct)
        st2 == IF df.RSI > sell_rsi_overbought /\ rsi_n > 0
               THEN Sell(st1, ticker, current_price, 70, "rsi_overbought", rsi_n, FALSE, clock)
               ELSE st1
        \* trailing stop
        hwm == NewHighest(st2.highest_price, ticker, current_price)
        st3 == [st2 EXCEPT !.highest_price = MapPut(st2.highest_price, ticker, hwm)]
        note(s, rule) ==
            [s EXCEPT !.evaluated = MapPut(s.evaluated, ticker,
                [price |-> current_price, df |-> df, shares |-> shares,
                 avg_price |-> avg_price, balance_before |-> st.balance,
                 hwm |-> IF rule = "ma20_break" THEN 0 ELSE hwm, rule |-> rule])]
    IN IF current_price = NoPrice THEN st
       ELSE IF df = NoDf THEN st0
       ELSE IF df.MA5 = NaN \/ df.MA20 = NaN \/ df.RSI = NaN THEN st0
       ELSE IF Ma20Break(df, current_price)
            THEN note(Sell(st0, ticker, current_price, 100, "ma20_break",
                           NoShares, TRUE, clock), "ma20_break")
       ELSE IF TrailingStopHit(hwm, current_price)
            THEN note(Sell(st3, ticker, current_price, 100, "trailing_stop",
                           NoShares, TRUE, clock), "trailing_stop")
       ELSE IF StopLossHit(avg_price, current_price)
            THEN note(Sell(st3, ticker, current_price, 100, "stop_loss",
                           NoShares, TRUE, clock), "stop_loss")
       ELSE note(st3, "none")

RECURSIVE CheckEntries(_, _, _, _, _)
CheckEntries(st, entries, current_prices, hist, clock) ==
    IF entries = <<>> THEN st
    ELSE CheckEntries(CheckPosition(st, Head(entries), current_prices, hist, clock),
                      Tail(entries), current_prices, hist, clock)

CheckPositions(st, current_prices, hist, clock) ==
    CheckEntries(st, st.portfolio, current_prices, hist, clock)
(***************************************************************************)
(* SignalAggregator and CapitalAllocator: _execute_trades.  An analysis is *)
(* [top_picks, top_pick, action, confidence]; top_pick = "" stands for a   *)
(* missing primary pick.                                                   *)
(***************************************************************************)
NoPrices(current_prices) == \A t \in DOMAIN current_prices : current_prices[t] = NoPrice

PickCandidates(picks, current_prices) ==
    SelectSeq(picks,
              LAMBDA pick : pick.action \in {"BUY", "HOLD"}
                            /\ pick.ticker \in DOMAIN current_prices
                            /\ current_prices[pick.ticker] # NoPrice)

FirstN(s, n) == IF Len(s) <= n THEN s ELSE SubSeq(s, 1, n)

Candidates(analysis, current_prices) ==
    LET listed == PickCandidates(FirstN(analysis.top_picks, max_candidates), current_prices)
        main == [ticker |-> analysis.top_pick, confidence |-> analysis.confidence,
                 action |-> analysis.action]
    IN IF analysis.action \in {"BUY", "HOLD"}
          /\ analysis.top_pick # ""
          /\ analysis.top_pick \in DOMAIN current_prices
          /\ current_prices[analysis.top_pick] # NoPrice
          /\ ~\E i \in DOMAIN listed : listed[i].ticker = analysis.top_pick
       THEN Append(listed, main)
       ELSE listed

\* candidates.sort(key=confidence, reverse=True): stable, descending
RECURSIVE InsertDesc(_, _)
InsertDesc(sorted, c) ==
    IF sorted = <<>> THEN <<c>>
    ELSE IF Head(sorted).confidence >= c.confidence
         THEN <<Head(sorted)>> \o InsertDesc(Tail(sorted), c)
         ELSE <<c>> \o sorted

RECURSIVE SortDesc(_)
SortDesc(s) ==
    IF s = <<>> THEN <<>>
    ELSE InsertDesc(SortDesc(SubSeq(s, 1, Len(s) - 1)), s[Len(s)])

RankedCandidates(analysis, current_prices) ==
    FirstN(SortDesc(Candidates(analysis, current_prices)), max_candidates)

BuyCandidates(cands) ==
    SelectSeq(cands, LAMBDA c : c.action = "BUY" /\ c.confidence >= min_confidence)
HoldCandidates(cands) ==
    SelectSeq(cands, LAMBDA c : c.action = "HOLD" /\ c.confidence >= hold_min_confidence)

RECURSIVE TotalConf(_)
TotalConf(cands) ==
    IF cands = <<>> THEN 0 ELSE Head(cands).confidence + TotalConf(Tail(cands))

InvestCapitalTooSmall(bal) ==
    bal * invest_fraction_pct < min_invest_capital * Milli * 100

\* amount = invest_capital * (conf / total) * (adj_conf / conf), adj_conf = (conf + 100) / 2
BuyAmount(bal, conf, total) ==
    FracFloor(bal, invest_fraction_pct * conf * (conf + 100), 100 * total * 2 * conf)
HoldAmount(bal, conf, total) ==
    FracFloor(bal, invest_fraction_pct * hold_budget_pct * conf * (conf + 100),
              100 * 100 * total * 2 * conf)
AdjConf(conf) == (conf + 100) \div 2

RECURSIVE BuyLoop(_, _, _, _, _, _, _, _)
BuyLoop(st, cands, total, bal0, current_prices, fresh, hist, clock) ==
    IF cands = <<>> THEN st
    ELSE LET c == Head(cands)
             got == GetHistoryDf(st.cache, c.ticker, hist, clock)
             st0 == [st EXCEPT !.cache = got.cache]
             next == IF CheckTechnicalFilters(got.df)
                     THEN Buy(st0, c.ticker, current_prices[c.ticker], AdjConf(c.confidence),
                              BuyAmount(bal0, c.confidence, total), fresh, clock)
                     ELSE st0
         IN BuyLoop(next, Tail(cands), total, bal0, current_prices, fresh, hist, clock)

RECURSIVE HoldLoop(_, _, _, _, _, _, _, _)
HoldLoop(st, cands, total, bal0, current_prices, fresh, hist, clock) ==
    IF cands = <<>> THEN st
    ELSE LET c == Head(cands)
             got == GetHistoryDf(st.cache, c.ticker, hist, clock)
             st0 == [st EXCEPT !.cache = got.cache]
             next == IF ~Held(st.portfolio, c.ticker) THEN st
                     ELSE IF CheckTechnicalFilters(got.df)
                     THEN Buy(st0, c.ticker, current_prices[c.ticker], AdjConf(c.confidence),
                              HoldAmount(bal0, c.confidence, total), fresh, clock)
                     ELSE st0
         IN HoldLoop(next, Tail(cands), total, bal0, current_prices, fresh, hist, clock)

\* variant that still runs the position checks before returning
NoCandidatesStillChecks(st, current_prices, hist, clock) ==
    [CheckPositions(st, current_prices, hist, clock) EXCEPT !.stage = "no_candidates"]

\* "if not candidates: return"
NoCandidatesReturn(st, current_prices, hist, clock) ==
    [st EXCEPT !.stage = "no_candidates"]

ExecuteTrades(st, analysis, current_prices, fresh, hist, clock) ==
    LET cands == RankedCandidates(analysis, current_prices)
        buy_candidates == BuyCandidates(cands)
        hold_candidates == HoldCandidates(cands)
        bought == BuyLoop(st, buy_candidates, TotalConf(buy_candidates), st.balance,
                          current_prices, fresh, hist, clock)
        held == HoldLoop(bought, hold_candidates, TotalConf(hold_candidates), st.balance,
                         current_prices, fresh, hist, clock)
        entered == [held EXCEPT !.entry_trades = Len(held.trades)]
    IN IF NoPrices(current_prices) THEN [st EXCEPT !.stage = "no_prices"]
       ELSE IF Candidates(analysis, current_prices) = <<>>
            THEN NoCandidatesReturn(st, current_prices, hist, clock)
       ELSE IF InvestCapitalTooSmall(st.balance)
            THEN [st EXCEPT !.stage = "low_capital"]
       ELSE [CheckPositions(entered, current_prices, hist, clock) EXCEPT !.stage = "checked"]
(***************************************************************************)
(* get_portfolio_summary and _update_performance.  The percentages of the  *)
(* summary are ratios of fields that are kept, and are left out.           *)
(***************************************************************************)
SummaryPosition(e, prices) ==
    [ticker |-> e.ticker, shares |-> e.shares, avg_price |-> e.avg_price,
     current_price |-> prices[e.ticker],
     current_value |-> e.shares * prices[e.ticker] * Milli,
     profit |-> [n |-> e.shares * (prices[e.ticker] * e.avg_price.d - e.avg_price.n),
                 d |-> e.avg_price.d]]

RECURSIVE SummaryPositions(_, _)
SummaryPositions(p, prices) ==
    IF p = <<>> THEN <<>>
    ELSE IF prices[Head(p).ticker] # NoPrice
         THEN <<SummaryPosition(Head(p), prices)>> \o SummaryPositions(Tail(p), prices)
         ELSE SummaryPositions(Tail(p), prices)

\* positions.sort(key=current_value, reverse=True): stable, descending
RECURSIVE InsertByValue(_, _)
InsertByValue(sorted, e) ==
    IF sorted = <<>> THEN <<e>>
    ELSE IF Head(sorted).current_value >= e.current_value
         THEN <<Head(sorted)>> \o InsertByValue(Tail(sorted), e)
         ELSE <<e>> \o sorted

RECURSIVE SortByValue(_)
SortByValue(s) ==
    IF s = <<>> THEN <<>>
    ELSE InsertByValue(SortByValue(SubSeq(s, 1, Len(s) - 1)), s[Len(s)])

RECURSIVE SumValues(_)
SumValues(ps) == IF ps = <<>> THEN 0 ELSE Head(ps).current_value + SumValues(Tail(ps))

GetPortfolioSummary(bal, p, prices, initial) ==
    LET positions == SummaryPositions(p, prices)
        total_value == bal + SumValues(positions)
    IN [balance |-> bal,
        total_value |-> total_value,
        invested |-> total_value - bal,
        positions |-> SortByValue(positions),
        total_profit |-> total_value - initial * Milli,
        position_count |-> Len(positions)]

UpdatePerformance(self, prices, clock) ==
    LET summary == GetPortfolioSummary(self.balance, self.portfolio, prices,
                                       self.initial_balance)
        stamped == [balance |-> summary.balance, total_value |-> summary.total_value,
                    invested |-> summary.invested, positions |-> summary.positions,
                    total_profit |-> summary.total_profit,
                    position_count |-> summary.position_count,
                    timestamp |-> Datetime(clock)]
    IN [self EXCEPT !.performance_history =
                        LastN(Append(self.performance_history, stamped), performance_cap)]

(***************************************************************************)
(* analyze_and_trade: one cycle on the trader record self.                 *)
(***************************************************************************)
NoLoad == [done |-> FALSE]

\* no _buy or _sell call is on record
NoCall == [op |-> "none"]

\* variant without the check of the flag
CycleAllowedAlways(self) == TRUE

\* "if not self.is_trading: return"
CycleAllowed(self) == self.is_trading

\* the cycle up to the call of _execute_trades
CycleBegin(self) ==
    [self EXCEPT !.cycles = self.cycles + 1,
                 !.stage = "started",
                 !.evaluated = EmptyMap,
                 !.first_trade = Len(self.trades) + 1,
                 !.entry_trades = Len(self.trades),
                 !.loaded = NoLoad,
                 !.call = NoCall]

\* _execute_trades on the price map current_prices it fetched, then
\* _update_performance; fresh is what the price collaborator answers by then
CycleFinish(started, analysis, current_prices, fresh, hist, clock) ==
    UpdatePerformance(ExecuteTrades(started, analysis, current_prices, fresh, hist, clock),
                      GetCurrentPrices(fresh), clock)

AnalyzeAndTrade(self, analysis, mkt, fresh, hist, clock) ==
    IF ~CycleAllowed(self) THEN self
    ELSE CycleFinish(CycleBegin(self), analysis, GetCurrentPrices(mkt), fresh, hist, clock)

(***************************************************************************)
(* PortfolioStateStore: _save_state and _load_state.  json.dump with       *)
(* default=str writes a datetime as its string; json.load returns that     *)
(* string.                                                                 *)
(***************************************************************************)
JsonValue(v) == IF v.kind = "datetime" THEN [kind |-> "str", at |-> v.at] ELSE v

JsonRecord(r) == [r EXCEPT !.timestamp = JsonValue(r.timestamp)]

JsonList(s) == [i \in DOMAIN s |-> JsonRecord(s[i])]

NoFile == [exists |-> FALSE]

\* the file after a write that was cut short: json.load raises on it
Truncated == [exists |-> TRUE, truncated |-> TRUE]

JsonLoadRaises(doc) == "truncated" \in DOMAIN doc

SaveState(self, clock) ==
    [exists |-> TRUE,
     balance |-> self.balance,
     portfolio |-> self.portfolio,
     trades |-> JsonList(LastN(self.trades, trades_kept)),
     performance_history |-> JsonList(LastN(self.performance_history, snapshots_kept)),
     last_save |-> [kind |-> "str", at |-> clock],
     is_trading |-> self.is_trading]

\* variant whose error handler zeroes the balance
LoadStateZeroOnError(self, doc) ==
    IF ~doc.exists THEN self
    ELSE IF JsonLoadRaises(doc) THEN [self EXCEPT !.balance = 0]
    ELSE [self EXCEPT !.balance = doc.balance,
                      !.portfolio = doc.portfolio,
                      !.trades = doc.trades,
                      !.performance_history = doc.performance_history,
                      !.is_trading = doc.is_trading]

LoadState(self, doc) ==
    IF ~doc.exists THEN self
    ELSE IF JsonLoadRaises(doc) THEN self
    ELSE [self EXCEPT !.balance = doc.balance,
                      !.portfolio = doc.portfolio,
                      !.trades = doc.trades,
                      !.performance_history = doc.performance_history,
                      !.is_trading = doc.is_trading]

(***************************************************************************)
(* __init__, start_trading, stop_trading.                                  *)
(***************************************************************************)
Defaults(initial) ==
    [initial_balance |-> initial, balance |-> initial * Milli, portfolio |-> <<>>, highest_price |-> EmptyMap,
     trades |-> <<>>, performance_history |-> <<>>, is_trading |-> TRUE,
     cache |-> EmptyMap, cycles |-> 0,
     stage |-> "idle", evaluated |-> EmptyMap, first_trade |-> 1, entry_trades |-> 0,
     loaded |-> NoLoad, call |-> NoCall]

StartTradingOn(self, analysis, mkt, fresh, hist, clock) ==
    AnalyzeAndTrade([self EXCEPT !.is_trading = TRUE], analysis, mkt, fresh, hist, clock)

\* what _load_state left in the trader, and whether it fell back to defaults
LoadedSnapshot(self, doc) ==
    [done |-> TRUE, fallback |-> ~doc.exists \/ JsonLoadRaises(doc),
     balance |-> self.balance, portfolio |-> self.portfolio,
     trades |-> self.trades, performance_history |-> self.performance_history]

Construct(initial, doc, analysis, mkt, hist, clock) ==
    LET loaded == LoadState(Defaults(initial), doc)
    IN [StartTradingOn(loaded, analysis, mkt, mkt, hist, clock)
            EXCEPT !.loaded = LoadedSnapshot(loaded, doc)]

(***************************************************************************)
(* MoexSignalsMonitor._execute_trade.                                      *)
(***************************************************************************)
MoexExecuteTrade(self, sig, mkt, clock) ==
    LET confidence == IF sig.model_score # 0 THEN sig.model_score ELSE 70
        sell_shares == IntPct(SharesOf(self.portfolio, sig.ticker), 50)
    IN IF sig.price = NoPrice THEN self
       ELSE IF sig.type = "bullish"
            THEN Buy(self, sig.ticker, sig.price, confidence, NoAmount, mkt, clock)
       ELSE IF Held(self.portfolio, sig.ticker) /\ sell_shares > 0
            THEN Sell(self, sig.ticker, sig.price, confidence, "moex_signal",
                      sell_shares, FALSE, clock)
       ELSE self

(***************************************************************************)
(* Inputs.                                                                 *)
(***************************************************************************)
Analyses ==
    {[top_picks |-> <<>>, top_pick |-> "SBER", action |-> x[1], confidence |-> x[2]] :
        x \in {<<"BUY", 100>>, <<"HOLD", 100>>, <<"HOLD", 50>>, <<"SELL", 100>>}}
Histories ==
    {NoDf,
     [bars |-> min_history_bars, MA5 |-> 90, MA20 |-> 90, RSI |-> 50],
     [bars |-> min_history_bars, MA5 |-> 90, MA20 |-> 117, RSI |-> 85]}
Signals == [ticker : OrderTickers, type : {"bullish", "bearish"}, price : OrderPrices,
            model_score : {0}]
OrderAmounts == {20000 * Milli}
OrderConfidences == {80, 100}
OrderShares == {NoShares, 10, 60}
SleepDurations == {history_cache_ttl}

(***************************************************************************)
(* The state machine of the engine: the trading loop, restarts of the      *)
(* process, and the collaborators (prices, price history, clock).          *)
(***************************************************************************)
\* the threads before the trading thread is started, no trader made by a chat
\* command, no backtest and no aggregation under way
IdleFrame == [active |-> FALSE]

IdleThreads == [loop |-> "init", main |-> "running", frame |-> IdleFrame,
                skipped |-> FALSE, raised |-> FALSE]

AuxIdle ==
    /\ threads = IdleThreads
    /\ bot_data = EmptyMap
    /\ backtest = [stage |-> "idle"]
    /\ aggregator = [stage |-> "idle"]

Self ==
    [initial_balance |-> initial_balance,
     balance |-> balance, portfolio |-> portfolio, highest_price |-> highest_price,
     trades |-> trades, performance_history |-> performance_history,
     is_trading |-> is_trading, cache |-> price_history_cache, cycles |-> cycles,
     stage |-> observed.stage, evaluated |-> observed.evaluated,
     first_trade |-> observed.first_trade, entry_trades |-> observed.entry_trades,
     loaded |-> observed.loaded, call |-> observed.call]

Observation(self) ==
    [stage |-> self.stage, evaluated |-> self.evaluated,
     first_trade |-> self.first_trade, entry_trades |-> self.entry_trades,
     loaded |-> self.loaded, call |-> self.call]

Staged(self, stage) ==
    [self EXCEPT !.stage = stage, !.evaluated = EmptyMap,
                 !.first_trade = Len(self.trades) + 1,
                 !.entry_trades = Len(self.trades),
                 !.loaded = NoLoad,
                 !.call = NoCall]

Becomes(self) ==
    /\ balance' = self.balance
    /\ portfolio' = self.portfolio
    /\ highest_price' = self.highest_price
    /\ trades' = self.trades
    /\ performance_history' = self.performance_history
    /\ is_trading' = self.is_trading
    /\ price_history_cache' = self.cache
    /\ cycles' = self.cycles
    /\ initial_balance' = self.initial_balance
    /\ observed' = Observation(self)

Starts(self) ==
    /\ balance = self.balance
    /\ portfolio = self.portfolio
    /\ highest_price = self.highest_price
    /\ trades = self.trades
    /\ performance_history = self.performance_history
    /\ is_trading = self.is_trading
    /\ price_history_cache = self.cache
    /\ cycles = self.cycles
    /\ initial_balance = self.initial_balance
    /\ observed = Observation(self)

Init ==
    \E initial \in InitialBalances, analysis \in Analyses,
       mkt \in [Tickers -> Prices \cup {NoPrice}], hist \in [Tickers -> Histories] :
        /\ Starts(Construct(initial, NoFile, analysis, mkt, hist, 0))
        /\ disk = NoFile
        /\ market = mkt
        /\ history = hist
        /\ now = 0
        /\ restarts = 0
        /\ AuxIdle

\* one iteration of the loop of start_auto_trading: a cycle, then _save_state
LoopCycle(analysis) ==
    /\ is_trading
    /\ cycles < MaxCycles
    /\ LET self == AnalyzeAndTrade(Self, analysis, market, market, history, now) IN
        /\ Becomes(self)
        /\ disk' = SaveState(self, now)
    /\ UNCHANGED <<market, history, now, restarts, auxVars>>

\* the process ends and a new one constructs the trader from the state file
Restart(analysis) ==
    /\ restarts < MaxRestarts
    /\ cycles < MaxCycles
    /\ Becomes([Construct(initial_balance, disk, analysis, market, history, now)
                    EXCEPT !.cycles = cycles + 1])
    /\ restarts' = restarts + 1
    /\ UNCHANGED <<disk, market, history, now, auxVars>>

MarketMove(t, p) ==
    /\ market[t] # p
    /\ market' = [market EXCEPT ![t] = p]
    /\ observed' = Observation(Staged(Self, "idle"))
    /\ UNCHANGED <<traderVars, disk, history, now, restarts, auxVars>>

HistoryMove(t, h) ==
    /\ history[t] # h
    /\ history' = [history EXCEPT ![t] = h]
    /\ observed' = Observation(Staged(Self, "idle"))
    /\ UNCHANGED <<traderVars, disk, market, now, restarts, auxVars>>

Sleep(d) ==
    /\ now + d <= MaxTime
    /\ now' = now + d
    /\ observed' = Observation(Staged(Self, "idle"))
    /\ UNCHANGED <<traderVars, disk, market, history, restarts, auxVars>>

Next ==
    \/ \E analysis \in Analyses : LoopCycle(analysis)
    \/ \E analysis \in Analyses : Restart(analysis)
    \/ \E t \in Tickers, p \in Prices \cup {NoPrice} : MarketMove(t, p)
    \/ \E t \in Tickers, h \in Histories : HistoryMove(t, h)
    \/ \E d \in SleepDurations : Sleep(d)

Spec == Init /\ [][Next]_vars

(***************************************************************************)
(* The state machine of the OrderExecutor alone: any sequence of _buy and  *)
(* _sell calls, as the allocator, the risk manager and the signal monitor  *)
(* make them, on a trader that holds up to three tickers.                  *)
(***************************************************************************)
InitOrders ==
    /\ Starts(Staged(Defaults(HighBalance), "idle"))
    /\ disk = NoFile
    /\ market = [t \in OrderTickers |-> 100]
    /\ history = [t \in OrderTickers |-> NoDf]
    /\ now = 0
    /\ restarts = 0
    /\ AuxIdle

OrderBuy(t, p, conf, amount) ==
    /\ Len(trades) < MaxOrders
    /\ LET self == Buy(Self, t, p, conf, amount, market, now)
           available == BuyAvailable(balance, portfolio, t, p, conf, amount, market)
       IN Becomes(Staged(self, IF self.trades = trades THEN "rejected"
                               ELSE IF BuyFallback(balance, available, p)
                                    THEN "buy_fallback"
                               ELSE "buy"))
    /\ UNCHANGED <<disk, market, history, now, restarts, auxVars>>

OrderSell(t, p, conf, shares, sell_all) ==
    /\ Len(trades) < MaxOrders
    /\ LET self == Sell(Self, t, p, conf, "manual", shares, sell_all, now)
       IN Becomes(Staged(self, IF self.trades = trades THEN "rejected" ELSE "sell"))
    /\ UNCHANGED <<disk, market, history, now, restarts, auxVars>>

MoexSignal(sig) ==
    /\ Len(trades) < MaxOrders
    /\ LET self == MoexExecuteTrade(Self, sig, market, now)
       IN Becomes(Staged(self, IF self.trades = trades THEN "rejected" ELSE "signal"))
    /\ UNCHANGED <<disk, market, history, now, restarts, auxVars>>

NextOrders ==
    \/ \E t \in OrderTickers, p \in OrderPrices, conf \in OrderConfidences,
          amount \in OrderAmounts : OrderBuy(t, p, conf, amount)
    \/ \E t \in OrderTickers, p \in OrderPrices, conf \in OrderConfidences,
          shares \in OrderShares, sell_all \in BOOLEAN :
            OrderSell(t, p, conf, shares, sell_all)
    \/ \E sig \in Signals : MoexSignal(sig)

SpecOrders == InitOrders /\ [][NextOrders]_vars

(***************************************************************************)
(* The OrderExecutor call by call: observed.call keeps the arguments of    *)
(* the last _buy or _sell call, so that what the call did can be compared  *)
(* with what it was asked to do.                                           *)
(***************************************************************************)
CallPrices == {50, 94}
CallAmounts == {4500 * Milli, 20000 * Milli}
CallConfidences == {80}

\* (confidence, shares, sell_all) of a _sell call: the three confidence
\* tiers, an explicit count of zero, below and above the holding, and
\* sell_all together with an explicit count
CallSells == {<<100, NoShares, FALSE>>, <<80, NoShares, FALSE>>, <<60, NoShares, FALSE>>,
              <<60, 0, FALSE>>, <<60, 10, FALSE>>, <<60, 200, FALSE>>, <<60, 10, TRUE>>}

BuyCall(t, p, conf, amount) ==
    [op |-> "buy", ticker |-> t, price |-> p, confidence |-> conf, max_amount |-> amount]

SellCall(t, p, conf, shares, sell_all) ==
    [op |-> "sell", ticker |-> t, price |-> p, confidence |-> conf,
     shares |-> shares, sell_all |-> sell_all]

CallBuy(t, p, conf, amount) ==
    /\ Len(trades) < MaxOrders
    /\ \E self \in {Buy(Self, t, p, conf, amount, market, now)} :
         Becomes([Staged(self, IF self.trades = trades THEN "rejected"
                               ELSE IF BuyFallback(balance,
                                         BuyAvailable(balance, portfolio, t, p, conf,
                                                      amount, market), p)
                                    THEN "buy_fallback"
                               ELSE "buy")
                     EXCEPT !.call = BuyCall(t, p, conf, amount)])
    /\ UNCHANGED <<disk, market, history, now, restarts, auxVars>>

CallSell(t, p, conf, shares, sell_all) ==
    /\ Len(trades) < MaxOrders
    /\ \E self \in {Sell(Self, t, p, conf, "manual", shares, sell_all, now)} :
         Becomes([Staged(self, IF self.trades = trades THEN "rejected" ELSE "sell")
                     EXCEPT !.call = SellCall(t, p, conf, shares, sell_all)])
    /\ UNCHANGED <<disk, market, history, now, restarts, auxVars>>

NextCalls ==
    \/ \E t \in OrderTickers, p \in CallPrices, conf \in CallConfidences,
          amount \in CallAmounts : CallBuy(t, p, conf, amount)
    \/ \E t \in OrderTickers, x \in CallSells : CallSell(t, 100, x[1], x[2], x[3])

SpecCalls == InitOrders /\ [][NextCalls]_vars

(***************************************************************************)
(* The state machine of the PortfolioStateStore: orders change the trader, *)
(* _save_state writes the file, a write can be cut short, the file can be  *)
(* removed, and a new process constructs the trader from what is there.    *)
(***************************************************************************)
StoreAnalyses == {[top_picks |-> <<>>, top_pick |-> "SBER", action |-> "SELL", confidence |-> 100],
                  [top_picks |-> <<>>, top_pick |-> "LKOH", action |-> "BUY", confidence |-> 100]}

StoreSave ==
    /\ disk' = SaveState(Self, now)
    /\ disk' # disk
    /\ UNCHANGED <<traderVars, observed, market, history, now, restarts, auxVars>>

\* the process dies between open(..., 'w') and the end of json.dump
StoreCrashInSave ==
    /\ disk # Truncated
    /\ disk' = Truncated
    /\ UNCHANGED <<traderVars, observed, market, history, now, restarts, auxVars>>

StoreRemove ==
    /\ disk # NoFile
    /\ disk' = NoFile
    /\ UNCHANGED <<traderVars, observed, market, history, now, restarts, auxVars>>

StoreStartup(analysis) ==
    /\ restarts < MaxRestarts
    /\ Becomes(Construct(initial_balance, disk, analysis, market, history, now))
    /\ restarts' = restarts + 1
    /\ UNCHANGED <<disk, market, history, now, auxVars>>

NextStore ==
    \/ \E p \in OrderPrices, amount \in OrderAmounts : OrderBuy("SBER", p, 100, amount)
    \/ \E p \in OrderPrices : OrderSell("SBER", p, 100, NoShares, TRUE)
    \/ StoreSave
    \/ StoreCrashInSave
    \/ StoreRemove
    \/ \E analysis \in StoreAnalyses : StoreStartup(analysis)

SpecStore == InitOrders /\ [][NextStore]_vars

(***************************************************************************)
(* The threads of the running bot.  run_bot constructs the trader of the   *)
(* services registry and starts start_auto_trading on it in a daemon       *)
(* thread; that trader is the one of the variables balance, portfolio, ... *)
(* The chat command handlers run in the event loop of the main thread and  *)
(* take their trader from bot_data, where nothing but the handlers         *)
(* themselves puts one: the first trader command constructs a second       *)
(* VirtualTrader from the same state file.  A cycle of the trading thread  *)
(* takes two steps, so that the other thread and the price collaborator    *)
(* can act while it is in flight: the step that checks the flag, asks the  *)
(* advisor and fetches the price map, and the step that trades on it.      *)
(* threads.loop is the position of the trading thread.                     *)
(***************************************************************************)
ThreadPrices == {100, 150}

ThreadAnalyses == {[top_picks |-> <<>>, top_pick |-> "SBER", action |-> "BUY", confidence |-> 100],
                   [top_picks |-> <<>>, top_pick |-> "SBER", action |-> "SELL", confidence |-> 100]}

InFlight == {"start_cycle", "cycle"}

HasBotTrader == "ai_trader" \in DOMAIN bot_data

BotCycles == IF HasBotTrader THEN bot_data["ai_trader"].cycles ELSE 0

Frame(analysis, prices) == [active |-> TRUE, analysis |-> analysis, prices |-> prices]

InitThreads ==
    \E analysis \in ThreadAnalyses :
        /\ Starts(Construct(HighBalance, NoFile, analysis,
                             [t \in Tickers |-> 100],
                             [t \in Tickers |-> [bars |-> 20, MA5 |-> 90, MA20 |-> 90, RSI |-> 50]], 0))
        /\ disk = NoFile
        /\ market = [t \in Tickers |-> 100]
        /\ history = [t \in Tickers |-> [bars |-> 20, MA5 |-> 90, MA20 |-> 90, RSI |-> 50]]
        /\ now = 0
        /\ restarts = 0
        /\ AuxIdle

\* start_auto_trading calls start_trading(): the flag, then a cycle
LoopStart(analysis) ==
    /\ threads.loop = "init"
    /\ Becomes(CycleBegin([Self EXCEPT !.is_trading = TRUE]))
    /\ threads' = [threads EXCEPT !.loop = "start_cycle", !.raised = FALSE,
                                  !.frame = Frame(analysis, GetCurrentPrices(market))]
    /\ UNCHANGED <<disk, market, history, now, restarts, bot_data, backtest, aggregator>>

\* "while trader.is_trading"
LoopWhile ==
    /\ threads.loop = "while"
    /\ threads' = [threads EXCEPT !.loop = IF is_trading THEN "call" ELSE "exited"]
    /\ UNCHANGED <<traderVars, observed, disk, market, history, now, restarts,
                   bot_data, backtest, aggregator>>

\* the loop calls analyze_and_trade()
LoopCall(analysis) ==
    /\ threads.loop = "call"
    /\ IF ~CycleAllowed(Self)
       THEN /\ threads' = [threads EXCEPT !.loop = "save", !.skipped = TRUE]
            /\ UNCHANGED <<traderVars, observed>>
       ELSE /\ cycles < MaxCycles
            /\ Becomes(CycleBegin(Self))
            /\ threads' = [threads EXCEPT !.loop = "cycle", !.raised = FALSE,
                                          !.frame = Frame(analysis, GetCurrentPrices(market))]
    /\ UNCHANGED <<disk, market, history, now, restarts, bot_data, backtest, aggregator>>

\* the cycle in flight trades on its price map and returns
LoopFinish ==
    /\ threads.loop \in InFlight
    /\ Becomes(CycleFinish(Self, threads.frame.analysis, threads.frame.prices,
                            market, history, now))
    /\ threads' = [threads EXCEPT !.loop = IF threads.loop = "cycle" THEN "save" ELSE "while",
                                  !.frame = IdleFrame]
    /\ UNCHANGED <<disk, market, history, now, restarts, bot_data, backtest, aggregator>>

\* the cycle in flight raises: "except Exception" of the loop, or the end of
\* the thread when start_trading() raises
LoopRaise ==
    /\ threads.loop \in InFlight
    /\ threads' = [threads EXCEPT !.loop = IF threads.loop = "cycle" THEN "error_sleep"
                                           ELSE "exited",
                                  !.frame = IdleFrame, !.raised = TRUE]
    /\ UNCHANGED <<traderVars, observed, disk, market, history, now, restarts,
                   bot_data, backtest, aggregator>>

\* trader._save_state() of the loop
LoopSave ==
    /\ threads.loop = "save"
    /\ disk' = SaveState(Self, now)
    /\ threads' = [threads EXCEPT !.loop = "sleep", !.skipped = FALSE]
    /\ UNCHANGED <<traderVars, observed, market, history, now, restarts,
                   bot_data, backtest, aggregator>>

\* the wait ends: the interval is over, or is_trading is false
LoopWake ==
    /\ threads.loop \in {"sleep", "error_sleep"}
    /\ threads' = [threads EXCEPT !.loop = "while"]
    /\ UNCHANGED <<traderVars, observed, disk, market, history, now, restarts,
                   bot_data, backtest, aggregator>>

\* run_bot on KeyboardInterrupt: trader.stop_trading()
Shutdown ==
    /\ threads.main = "running"
    /\ is_trading' = FALSE
    /\ disk' = SaveState([Self EXCEPT !.is_trading = FALSE], now)
    /\ threads' = [threads EXCEPT !.main = "stopped"]
    /\ UNCHANGED <<balance, portfolio, highest_price, trades, performance_history,
                   price_history_cache, cycles, initial_balance, observed,
                   market, history, now, restarts, bot_data, backtest, aggregator>>

\* the trader of a command handler: the one in bot_data, or a new one
BotTrader(analysis) ==
    IF HasBotTrader THEN bot_data["ai_trader"]
    ELSE Construct(initial_balance, disk, analysis, market, history, now)

BotMayCycle == BotCycles < MaxBotCycles

TraderAnalyzeCommand(analysis) ==
    /\ threads.main = "running"
    /\ BotMayCycle
    /\ \E trader \in {BotTrader(analysis)} :
        bot_data' = MapPut(bot_data, "ai_trader",
                           IF ~trader.is_trading THEN trader
                           ELSE AnalyzeAndTrade(trader, analysis, market, market, history, now))
    /\ UNCHANGED <<traderVars, observed, disk, market, history, now, restarts,
                   threads, backtest, aggregator>>

TraderStartCommand(analysis) ==
    /\ threads.main = "running"
    /\ BotMayCycle
    /\ \E trader \in {BotTrader(analysis)} :
        bot_data' = MapPut(bot_data, "ai_trader",
                           IF trader.is_trading THEN trader
                           ELSE StartTradingOn(trader, analysis, market, market, history, now))
    /\ UNCHANGED <<traderVars, observed, disk, market, history, now, restarts,
                   threads, backtest, aggregator>>

TraderStopCommand(analysis) ==
    /\ threads.main = "running"
    /\ HasBotTrader \/ BotMayCycle
    /\ \E trader \in {BotTrader(analysis)} :
        IF trader.is_trading
        THEN /\ bot_data' = MapPut(bot_data, "ai_trader", [trader EXCEPT !.is_trading = FALSE])
             /\ disk' = SaveState([trader EXCEPT !.is_trading = FALSE], now)
        ELSE /\ bot_data' = MapPut(bot_data, "ai_trader", trader)
             /\ UNCHANGED disk
    /\ UNCHANGED <<traderVars, observed, market, history, now, restarts,
                   threads, backtest, aggregator>>

TraderStatusCommand(analysis) ==
    /\ threads.main = "running"
    /\ ~HasBotTrader
    /\ bot_data' = MapPut(bot_data, "ai_trader", BotTrader(analysis))
    /\ UNCHANGED <<traderVars, observed, disk, market, history, now, restarts,
                   threads, backtest, aggregator>>

\* the price collaborator answers with another, higher price from now on
PriceChange(t, p) ==
    /\ market[t] < p
    /\ market' = [market EXCEPT ![t] = p]
    /\ UNCHANGED <<traderVars, observed, disk, history, now, restarts, auxVars>>

NextThreads ==
    \/ \E analysis \in ThreadAnalyses : LoopStart(analysis)
    \/ LoopWhile
    \/ \E analysis \in ThreadAnalyses : LoopCall(analysis)
    \/ LoopFinish
    \/ LoopRaise
    \/ LoopSave
    \/ LoopWake
    \/ Shutdown
    \/ \E analysis \in ThreadAnalyses : TraderAnalyzeCommand(analysis)
    \/ \E analysis \in ThreadAnalyses : TraderStartCommand(analysis)
    \/ \E analysis \in ThreadAnalyses : TraderStopCommand(analysis)
    \/ \E analysis \in ThreadAnalyses : TraderStatusCommand(analysis)
    \/ \E t \in Tickers, p \in ThreadPrices : PriceChange(t, p)

SpecThreads == InitThreads /\ [][NextThreads]_vars

(***************************************************************************)
(* The CapitalAllocator on two tickers: cycles of the trading loop whose   *)
(* recommendation object ranks SBER and GAZP, with prices and price        *)
(* histories that come and go per ticker.  observed.call keeps the         *)
(* recommendation object of the last cycle.                                *)
(***************************************************************************)
AllocTickers == {"SBER", "GAZP"}

Ranked(picks) ==
    [top_picks |-> picks, top_pick |-> picks[1].ticker, action |-> picks[1].action,
     confidence |-> picks[1].confidence]

AllocAnalyses ==
    {Ranked(<<[ticker |-> "SBER", action |-> "BUY", confidence |-> 80],
              [ticker |-> "GAZP", action |-> "BUY", confidence |-> 80]>>),
     Ranked(<<[ticker |-> "SBER", action |-> "HOLD", confidence |-> 80],
              [ticker |-> "GAZP", action |-> "BUY", confidence |-> 80]>>),
     Ranked(<<[ticker |-> "GAZP", action |-> "BUY", confidence |-> 80]>>)}

\* the advisor recommends selling: no candidate
SellAnalysis == [top_picks |-> <<>>, top_pick |-> "SBER", action |-> "SELL", confidence |-> 100]

CycleCall(analysis) == [op |-> "cycle", analysis |-> analysis]

InitAllocator ==
    \E mkt \in [AllocTickers -> {100, NoPrice}], hist \in [AllocTickers -> Histories] :
        /\ Starts(Construct(HighBalance, NoFile, SellAnalysis, mkt, hist, 0))
        /\ disk = NoFile
        /\ market = mkt
        /\ history = hist
        /\ now = 0
        /\ restarts = 0
        /\ AuxIdle

\* one iteration of the loop of start_auto_trading, as LoopCycle
AllocCycle(analysis) ==
    /\ is_trading
    /\ cycles < MaxCycles
    /\ \E self \in {AnalyzeAndTrade(Self, analysis, market, market, history, now)} :
        /\ Becomes([self EXCEPT !.call = CycleCall(analysis)])
        /\ disk' = SaveState(self, now)
    /\ UNCHANGED <<market, history, now, restarts, auxVars>>

NextAllocator ==
    \/ \E analysis \in AllocAnalyses : AllocCycle(analysis)
    \/ \E t \in AllocTickers, p \in {100, NoPrice} : MarketMove(t, p)
    \/ \E t \in AllocTickers, h \in Histories : HistoryMove(t, h)

SpecAllocator == InitAllocator /\ [][NextAllocator]_vars

(***************************************************************************)
(* _get_history_df called directly, ticker by ticker, while the clock      *)
(* advances and the history collaborator changes its answer.               *)
(***************************************************************************)
\* two waits that add up to one second less than the TTL, or to the TTL
IndicatorSleeps == {history_cache_ttl \div 2 - 1, history_cache_ttl \div 2}

HistoryDfCall(t, got) ==
    [op |-> "history_df", ticker |-> t, df |-> got.df, fetched |-> got.fetched]

InitIndicators ==
    \E hist \in [AllocTickers -> Histories] :
        /\ Starts(Staged(Defaults(HighBalance), "idle"))
        /\ disk = NoFile
        /\ market = [t \in AllocTickers |-> 100]
        /\ history = hist
        /\ now = 0
        /\ restarts = 0
        /\ AuxIdle

RequestDf(t) ==
    /\ \E got \in {GetHistoryDf(price_history_cache, t, history, now)} :
         Becomes([Staged(Self, "history_df")
                     EXCEPT !.cache = got.cache, !.call = HistoryDfCall(t, got)])
    /\ UNCHANGED <<disk, market, history, now, restarts, auxVars>>

NextIndicators ==
    \/ \E t \in AllocTickers : RequestDf(t)
    \/ \E t \in AllocTickers, h \in Histories : HistoryMove(t, h)
    \/ \E d \in IndicatorSleeps : Sleep(d)

SpecIndicators == InitIndicators /\ [][NextIndicators]_vars

(***************************************************************************)
(* _check_positions called on positions of every small size: _buy and      *)
(* _sell with an explicit share count build the position, the price moves, *)
(* and the exit rules are evaluated on the indicators of the history.      *)
(***************************************************************************)
\* MA5 break with RSI overbought, MA5 break alone, RSI overbought alone,
\* and the MA20 break
ExitHistories ==
    {[bars |-> min_history_bars, MA5 |-> 110, MA20 |-> 90, RSI |-> 85],
     [bars |-> min_history_bars, MA5 |-> 110, MA20 |-> 90, RSI |-> 50],
     [bars |-> min_history_bars, MA5 |-> 90, MA20 |-> 90, RSI |-> 85],
     [bars |-> min_history_bars, MA5 |-> 90, MA20 |-> 117, RSI |-> 85]}
ExitPrices == {94, 100, 120}
ExitAmounts == {1000 * Milli, 2000 * Milli}
ExitSells == {1, 2, 4, 5}

CheckCall == [op |-> "check_positions"]

InitExits ==
    \E hist \in [Tickers -> ExitHistories] :
        /\ Starts(Staged(Defaults(HighBalance), "idle"))
        /\ disk = NoFile
        /\ market = [t \in Tickers |-> 100]
        /\ history = hist
        /\ now = 0
        /\ restarts = 0
        /\ AuxIdle

\* _check_positions(current_prices) on the prices of this moment
ExitCheck ==
    /\ Len(trades) <= MaxOrders
    /\ \E self \in {CheckPositions(Staged(Self, "checked"), market, history, now)} :
         Becomes([self EXCEPT !.call = CheckCall])
    /\ UNCHANGED <<disk, market, history, now, restarts, auxVars>>

NextExits ==
    \/ \E t \in Tickers, amount \in ExitAmounts : CallBuy(t, 100, 80, amount)
    \/ \E t \in Tickers, n \in ExitSells : CallSell(t, 100, 60, n, FALSE)
    \/ \E t \in Tickers, p \in ExitPrices : MarketMove(t, p)
    \/ ExitCheck

SpecExits == InitExits /\ [][NextExits]_vars

(***************************************************************************)
(* _buy on a small account: the trader starts with LowBalance, buys at the *)
(* price of the market, and the price moves.                               *)
(***************************************************************************)
LotPrices == {51, 100}
LotAmounts == {650 * Milli, 20000 * Milli}

InitLots ==
    /\ Starts(Staged(Defaults(LowBalance), "idle"))
    /\ disk = NoFile
    /\ market = [t \in OrderTickers |-> 51]
    /\ history = [t \in OrderTickers |-> NoDf]
    /\ now = 0
    /\ restarts = 0
    /\ AuxIdle

NextLots ==
    \/ \E t \in OrderTickers, amount \in LotAmounts : CallBuy(t, market[t], 80, amount)
    \/ \E t \in OrderTickers, p \in LotPrices : MarketMove(t, p)

SpecLots == InitLots /\ [][NextLots]_vars

(***************************************************************************)
(* The trading flag over the life of the process: stop_trading and         *)
(* start_trading on the running trader, the loop of start_auto_trading,    *)
(* and a new process that constructs the trader from the state file.       *)
(***************************************************************************)
\* stop_trading: the flag goes down and the state is saved
StopTrading ==
    /\ is_trading
    /\ \E self \in {[Staged(Self, "stopped") EXCEPT !.is_trading = FALSE]} :
         /\ Becomes(self)
         /\ disk' = SaveState(self, now)
    /\ UNCHANGED <<market, history, now, restarts, auxVars>>

\* start_trading: the flag goes up and a cycle runs at once
StartTrading(analysis) ==
    /\ ~is_trading
    /\ cycles < MaxCycles
    /\ \E self \in {StartTradingOn(Self, analysis, market, market, history, now)} :
         Becomes(self)
    /\ UNCHANGED <<disk, market, history, now, restarts, auxVars>>

NextLifecycle ==
    \/ \E analysis \in Analyses : LoopCycle(analysis)
    \/ \E analysis \in Analyses : Restart(analysis)
    \/ \E analysis \in Analyses : StartTrading(analysis)
    \/ StopTrading
    \/ \E t \in Tickers, p \in Prices : MarketMove(t, p)

SpecLifecycle == Init /\ [][NextLifecycle]_vars

(***************************************************************************)
(* The engine after a long run.  The initial state is the trader after     *)
(* ChurnRounds rounds of a signal-monitor buy of 10 SBER and the sale of   *)
(* the whole position (two trades a round), followed by QuietCycles cycles *)
(* on a SELL recommendation, each of which adds one performance snapshot;  *)
(* nothing was saved yet.  From there the loop runs cycles, prices move    *)
(* and the process restarts from the state file.                           *)
(***************************************************************************)
ChurnRound(st) ==
    Sell(Buy(st, "SBER", 100, 80, 1000 * Milli, [t \in Tickers |-> 100], 0),
         "SBER", 100, 100, "manual", NoShares, TRUE, 0)

\* rounds rounds, one after the other: the first half, then the rest
RECURSIVE Churn(_, _)
Churn(st, rounds) ==
    IF rounds = 0 THEN st
    ELSE IF rounds = 1 THEN ChurnRound(st)
    ELSE CHOOSE after \in {Churn(half, rounds - rounds \div 2) :
                               half \in {Churn(st, rounds \div 2)}} : TRUE

QuietCycle(st) ==
    AnalyzeAndTrade(st, [top_picks |-> <<>>, top_pick |-> "SBER", action |-> "SELL",
                         confidence |-> 100],
                    [t \in Tickers |-> 100], [t \in Tickers |-> 100],
                    [t \in Tickers |-> [bars |-> 20, MA5 |-> 90, MA20 |-> 90, RSI |-> 50]], 0)

\* n cycles, one after the other: the first half, then the rest
RECURSIVE Quiet(_, _)
Quiet(st, n) ==
    IF n = 0 THEN st
    ELSE IF n = 1 THEN QuietCycle(st)
    ELSE CHOOSE after \in {Quiet(half, n - n \div 2) : half \in {Quiet(st, n \div 2)}} : TRUE

LongRun == Quiet(Churn(Defaults(HighBalance), ChurnRounds), QuietCycles)

InitLongRun ==
    /\ Starts(Staged(LongRun, "idle"))
    /\ disk = NoFile
    /\ market = [t \in Tickers |-> 100]
    /\ history = [t \in Tickers |-> [bars |-> 20, MA5 |-> 90, MA20 |-> 90, RSI |-> 50]]
    /\ now = 0
    /\ restarts = 0
    /\ AuxIdle

LongRunCycle(analysis) ==
    /\ is_trading
    /\ cycles < QuietCycles + MaxCycles
    /\ \E self \in {AnalyzeAndTrade(Self, analysis, market, market, history, now)} :
        /\ Becomes(self)
        /\ disk' = SaveState(self, now)
    /\ UNCHANGED <<market, history, now, restarts, auxVars>>

LongRunRestart(analysis) ==
    /\ restarts < MaxRestarts
    /\ disk.exists
    /\ cycles < QuietCycles + MaxCycles
    /\ \E self \in {Construct(initial_balance, disk, analysis, market, history, now)} :
        Becomes([self EXCEPT !.cycles = cycles + 1])
    /\ restarts' = restarts + 1
    /\ UNCHANGED <<disk, market, history, now, auxVars>>

NextLongRun ==
    \/ \E analysis \in Analyses : LongRunCycle(analysis)
    \/ \E analysis \in Analyses : LongRunRestart(analysis)
    \/ \E t \in Tickers, p \in Prices : MarketMove(t, p)

SpecLongRun == InitLongRun /\ [][NextLongRun]_vars

(***************************************************************************)
(* Backtester.run: one step per bar of the series, then the forced close   *)
(* and the result.  Capital, cost and revenue are in thousandths; a bar is *)
(* its close, a signal is 1 (buy), -1 (sell) or 0 (hold); the date of a    *)
(* bar is its index.                                                       *)
(***************************************************************************)
commission_milli == 3
buy_fraction_pct == 95

BarCloses == {94, 100, 120}
BarSignals == {1, -1, 0}
BacktestCapitals == {1000, 50000}

\* variant that sizes the purchase on the whole capital
BacktestBuySharesAll(capital, price) == capital \div (price * Milli)

\* int(capital * 0.95 / price)
BacktestBuyShares(capital, price) ==
    FracFloor(capital, buy_fraction_pct, 100) \div (price * Milli)

BacktestBar(bt) ==
    LET i == bt.i
        price == bt.bars[i]
        shares == BacktestBuyShares(bt.capital, price)
        cost == shares * price * (Milli + commission_milli)
        revenue == bt.position * price * (Milli - commission_milli)
        after ==
            IF bt.signals[i] = 1 /\ bt.capital > 0
            THEN IF cost <= bt.capital
                 THEN [bt EXCEPT !.position = bt.position + shares,
                                 !.capital = bt.capital - cost,
                                 !.trades = Append(bt.trades,
                                     [date |-> i, action |-> "BUY", price |-> price,
                                      shares |-> shares, cost |-> cost])]
                 ELSE bt
            ELSE IF bt.signals[i] = -1 /\ bt.position > 0
                 THEN [bt EXCEPT !.capital = bt.capital + revenue,
                                 !.trades = Append(bt.trades,
                                     [date |-> i, action |-> "SELL", price |-> price,
                                      shares |-> bt.position, revenue |-> revenue]),
                                 !.position = 0]
                 ELSE bt
    IN [after EXCEPT !.i = i + 1,
                     !.equity_curve = Append(after.equity_curve,
                         [date |-> i, equity |-> after.capital + after.position * price * Milli])]

\* variant that leaves the last position open
BacktestFinishNoClose(bt) ==
    [bt EXCEPT !.stage = "done", !.final_equity = bt.capital]

\* "if position > 0": the forced close at the last close, then final_equity
BacktestFinish(bt) ==
    LET price == bt.bars[Len(bt.bars)]
        revenue == bt.position * price * (Milli - commission_milli)
        closed == IF bt.position > 0
                  THEN [bt EXCEPT !.capital = bt.capital + revenue,
                                  !.trades = Append(bt.trades,
                                      [date |-> Len(bt.bars), action |-> "SELL (close)",
                                       price |-> price, shares |-> bt.position,
                                       revenue |-> revenue])]
                  ELSE bt
    IN [closed EXCEPT !.stage = "done", !.final_equity = closed.capital]

BacktestRun(initial_capital, bars, signals) ==
    [stage |-> "running", initial_capital |-> initial_capital * Milli,
     bars |-> bars, signals |-> signals, i |-> 1,
     capital |-> initial_capital * Milli, position |-> 0, trades |-> <<>>,
     equity_curve |-> <<>>, final_equity |-> 0]

InitBacktest ==
    /\ Starts(Staged(Defaults(HighBalance), "idle"))
    /\ disk = NoFile
    /\ market = [t \in OrderTickers |-> 100]
    /\ history = [t \in OrderTickers |-> NoDf]
    /\ now = 0
    /\ restarts = 0
    /\ threads = IdleThreads
    /\ bot_data = EmptyMap
    /\ aggregator = [stage |-> "idle"]
    /\ \E initial_capital \in BacktestCapitals, n \in 1..MaxBars :
         \E bars \in [1..n -> BarCloses], signals \in [1..n -> BarSignals] :
            backtest = BacktestRun(initial_capital, bars, signals)

BacktestStep ==
    /\ backtest.stage = "running"
    /\ backtest.i <= Len(backtest.bars)
    /\ backtest' = BacktestBar(backtest)
    /\ UNCHANGED <<traderVars, observed, disk, market, history, now, restarts,
                   threads, bot_data, aggregator>>

BacktestReturn ==
    /\ backtest.stage = "running"
    /\ backtest.i > Len(backtest.bars)
    /\ backtest' = BacktestFinish(backtest)
    /\ UNCHANGED <<traderVars, observed, disk, market, history, now, restarts,
                   threads, bot_data, aggregator>>

NextBacktest == BacktestStep \/ BacktestReturn

SpecBacktest == InitBacktest /\ [][NextBacktest]_vars

(***************************************************************************)
(* The SignalAggregator alone: the candidate list _execute_trades builds   *)
(* from a recommendation object and a price map.                           *)
(***************************************************************************)
Picks == [ticker : OrderTickers, action : {"BUY", "HOLD", "SELL"}, confidence : {50, 80}]

\* a ranked list longer than the 7 picks that are read
LongPicks ==
    [i \in 1..8 |-> [ticker |-> IF i % 3 = 0 THEN "SBER" ELSE IF i % 3 = 1 THEN "GAZP" ELSE "LKOH",
                     action |-> "BUY", confidence |-> 50 + i]]

PickLists == {LongPicks} \cup UNION {[1..n -> Picks] : n \in 0..MaxPicks}

PriceMaps == {[t \in OrderTickers |-> 100],
              [t \in OrderTickers |-> IF t = "GAZP" THEN NoPrice ELSE 100]}

InitAggregator ==
    /\ Starts(Staged(Defaults(HighBalance), "idle"))
    /\ disk = NoFile
    /\ market = [t \in OrderTickers |-> 100]
    /\ history = [t \in OrderTickers |-> NoDf]
    /\ now = 0
    /\ restarts = 0
    /\ threads = IdleThreads
    /\ bot_data = EmptyMap
    /\ backtest = [stage |-> "idle"]
    /\ \E top_picks \in PickLists, top_pick \in OrderTickers, action \in {"BUY", "SELL"},
          prices \in PriceMaps :
            aggregator = [stage |-> "input",
                          analysis |-> [top_picks |-> top_picks, top_pick |-> top_pick,
                                        action |-> action, confidence |-> 80],
                          prices |-> prices]

Aggregate ==
    /\ aggregator.stage = "input"
    /\ aggregator' = [stage |-> "done", analysis |-> aggregator.analysis,
                      prices |-> aggregator.prices,
                      candidates |-> RankedCandidates(aggregator.analysis,
                                                      GetCurrentPrices(aggregator.prices))]
    /\ UNCHANGED <<traderVars, observed, disk, market, history, now, restarts,
                   threads, bot_data, backtest>>

NextAggregator == Aggregate

SpecAggregator == InitAggregator /\ [][NextAggregator]_vars

(***************************************************************************)
(* Properties.                                                             *)
(***************************************************************************)

\* C1: after any sequence of committed Buy and Sell operations that starts
\* from a non-negative balance the balance is >= 0, and every recorded trade
\* left a balance >= 0, also when the 0.9 safety-factor fallback sized it.
BalanceNonNegative ==
    /\ balance >= 0
    /\ \A i \in DOMAIN trades : trades[i].balance_after >= 0

\* a Buy was committed whose share count came from the 0.9 fallback
FallbackBuyCommitted ==
    /\ observed.stage = "buy_fallback"
    /\ trades # <<>>
    /\ trades[Len(trades)].action = "BUY"
    /\ balance = trades[Len(trades)].balance_after

\* C5: every entry of the positions map has a share count >= 1 and
\* avgPrice > 0, and no ticker has two entries: an entry is removed as soon
\* as a sell brings its shares to zero.
PositionsWellFormed ==
    /\ \A i \in DOMAIN portfolio :
          /\ portfolio[i].shares \in Nat \ {0}
          /\ portfolio[i].avg_price.n > 0
          /\ portfolio[i].avg_price.d > 0
    /\ \A i, j \in DOMAIN portfolio :
          portfolio[i].ticker = portfolio[j].ticker => i = j

\* a sell of all the shares bought before removed the entry
SellClosedPosition ==
    /\ observed.stage = "sell"
    /\ Len(trades) >= 2
    /\ trades[Len(trades)].action = "SELL"
    /\ trades[Len(trades) - 1].action = "BUY"
    /\ trades[Len(trades) - 1].ticker = trades[Len(trades)].ticker
    /\ trades[Len(trades) - 1].shares = trades[Len(trades)].shares
    /\ ~Held(portfolio, trades[Len(trades)].ticker)

\* C9: when the trades of a ticker are exactly a Buy of s1 at p1 followed by a
\* Buy of s2 at p2, the position holds s1 + s2 shares at
\* avgPrice = (s1*p1 + s2*p2) / (s1 + s2); fees are not in the cost basis.
WeightedAverageLaw ==
    \A t \in OrderTickers :
        LET mine == SelectSeq(trades, LAMBDA tr : tr.ticker = t) IN
        (Len(mine) = 2 /\ mine[1].action = "BUY" /\ mine[2].action = "BUY") =>
            /\ Held(portfolio, t)
            /\ PosOf(portfolio, t).shares = mine[1].shares + mine[2].shares
            /\ PosOf(portfolio, t).avg_price.n * (mine[1].shares + mine[2].shares)
                 = PosOf(portfolio, t).avg_price.d
                   * (mine[1].shares * mine[1].price + mine[2].shares * mine[2].price)

\* a ticker was bought twice, at two different prices
BoughtTwiceAtDifferentPrices ==
    \E t \in OrderTickers :
        LET mine == SelectSeq(trades, LAMBDA tr : tr.ticker = t) IN
        /\ Len(mine) = 2 /\ mine[1].action = "BUY" /\ mine[2].action = "BUY"
        /\ mine[1].price # mine[2].price
        /\ Held(portfolio, t)
\* the trades that the latest cycle committed, and its sells of ticker t
CycleTrades == SubSeq(trades, observed.first_trade, Len(trades))
CycleSells(t) == SelectSeq(CycleTrades, LAMBDA tr : tr.action = "SELL" /\ tr.ticker = t)

\* the engine can obtain a defined indicator snapshot for ticker t now
ValidSnapshot(t) ==
    LET df == GetHistoryDf(price_history_cache, t, history, now).df
    IN df # NoDf /\ df.MA5 # NaN /\ df.MA20 # NaN /\ df.RSI # NaN

AllOpenPositionsEvaluated ==
    \A i \in DOMAIN portfolio :
        (market[portfolio[i].ticker] # NoPrice /\ ValidSnapshot(portfolio[i].ticker))
            => portfolio[i].ticker \in DOMAIN observed.evaluated

\* C2: a cycle whose recommendation yields no candidate commits no entry and
\* still evaluates the exit rules for every open position that has a current
\* price and a valid indicator snapshot.
ExitsEvaluatedWithoutCandidates ==
    observed.stage = "no_candidates" =>
        /\ CycleTrades = <<>>
        /\ AllOpenPositionsEvaluated

\* C3: a cycle whose allocation is aborted because investCapital is below the
\* minimum trade floor still evaluates the exit rules for the open positions.
ExitsEvaluatedOnLowCapital ==
    observed.stage = "low_capital" => AllOpenPositionsEvaluated

\* C4: a cycle of the loop with an empty candidate set leaves balance,
\* positions and trade log unchanged, every time it runs.
EmptyCycleChangesNothing ==
    [][(cycles' = cycles + 1 /\ restarts' = restarts
        /\ observed'.stage = "no_candidates")
       => (balance' = balance /\ portfolio' = portfolio /\ trades' = trades)]_vars

\* a cycle without candidates ran while a held position was at its trailing stop
EmptyCycleRanOnPositionAtStop ==
    /\ observed.stage = "no_candidates"
    /\ \E i \in DOMAIN portfolio :
         LET t == portfolio[i].ticker IN
         /\ market[t] # NoPrice
         /\ ValidSnapshot(t)
         /\ t \in DOMAIN highest_price
         /\ market[t] * 100 <= highest_price[t] * 95

\* C6: an evaluated position with currentPrice < MA_long gets exactly one Sell
\* in that cycle, the full exit tagged ma20_break, whatever the RSI.
MaLongBreakPrecedence ==
    \A t \in DOMAIN observed.evaluated :
        LET e == observed.evaluated[t] IN
        e.price < e.df.MA20 =>
            /\ Len(CycleSells(t)) = 1
            /\ CycleSells(t)[1].reason = "ma20_break"
            /\ CycleSells(t)[1].shares = e.shares
            /\ ~Held(portfolio, t)

\* a position was evaluated below MA_long while RSI > 80
MaLongBreakWithOverboughtRsi ==
    \E t \in DOMAIN observed.evaluated :
        LET e == observed.evaluated[t] IN
        e.price < e.df.MA20 /\ e.df.RSI > 80 /\ e.shares >= 10

\* C7: an evaluated position more than 5% below avgPrice on which no earlier
\* rule fires gets exactly one Sell, of all held shares, with reason stop_loss;
\* the position is removed and the balance grows by shares x price x 0.997.
StaticStopLoss ==
    \A t \in DOMAIN observed.evaluated :
        LET e == observed.evaluated[t] IN
        (/\ e.price >= e.df.MA20 /\ e.price >= e.df.MA5 /\ e.df.RSI <= 80
         /\ e.price * 100 > e.hwm * 95
         /\ e.price * e.avg_price.d * 100 < e.avg_price.n * 95) =>
            /\ Len(CycleSells(t)) = 1
            /\ CycleSells(t)[1].reason = "stop_loss"
            /\ CycleSells(t)[1].shares = e.shares
            /\ ~Held(portfolio, t)
            /\ CycleSells(t)[1].balance_after = e.balance_before + e.shares * e.price * 997

\* a position with avgPrice 100 was stopped out at 94
StoppedOutAt94 ==
    \E t \in DOMAIN observed.evaluated :
        LET e == observed.evaluated[t] IN
        /\ e.rule = "stop_loss"
        /\ e.avg_price = [n |-> 100, d |-> 1]
        /\ e.price = 94
        /\ balance = e.balance_before + e.shares * 94 * 997

SaveLoadRoundTrip ==
    LET loaded == LoadState(Defaults(initial_balance), SaveState(Self, now)) IN
    /\ loaded.balance = balance
    /\ loaded.portfolio = portfolio
    /\ loaded.trades = LastN(trades, trades_kept)
    /\ loaded.performance_history = LastN(performance_history, snapshots_kept)
BotPortfolio ==
    IF HasBotTrader
    THEN <<bot_data["ai_trader"].balance, bot_data["ai_trader"].portfolio,
           bot_data["ai_trader"].trades>>
    ELSE <<>>

\* C12: no analysis-and-trade cycle is started by a command handler
\* (StartTrading, the analyze command, the construction of its trader) while
\* a cycle of the scheduled loop, its persistence write included, is still
\* in progress.
CyclesNeverOverlap ==
    [][BotCycles' > BotCycles => threads.loop \notin InFlight \cup {"save"}]_vars

\* C13: while is_trading is false and stays false no cycle starts, on either
\* trader; the analyze_and_trade() the loop calls then returns at once,
\* without asking the advisor and without touching balance, positions,
\* trade log or performance history.
NoCycleWhileDisabled ==
    [][/\ (~is_trading /\ ~is_trading') =>
            /\ cycles' = cycles
            /\ (threads.loop = "call" /\ threads'.loop # "call") =>
                   /\ threads'.frame = IdleFrame
                   /\ UNCHANGED <<balance, portfolio, trades, performance_history>>
       /\ (/\ HasBotTrader /\ ~bot_data["ai_trader"].is_trading
           /\ ~bot_data'["ai_trader"].is_trading) =>
            /\ bot_data'["ai_trader"].cycles = bot_data["ai_trader"].cycles
            /\ BotPortfolio' = BotPortfolio]_vars

\* the loop called analyze_and_trade() after the flag was cleared
LoopCallReturnedAtOnce ==
    /\ threads.skipped
    /\ ~is_trading
    /\ threads.loop = "save"
    /\ threads.main = "stopped"

\* C14: when StopTrading came while a cycle of start_auto_trading was in
\* flight and the cycle did not raise, the loop exits only after the state
\* that cycle left has been written to the state file.
StopLetsCyclePersist ==
    [][(/\ threads.loop # "exited" /\ threads'.loop = "exited"
        /\ threads.main = "stopped" /\ ~threads'.raised) =>
            /\ disk.exists
            /\ ~JsonLoadRaises(disk)
            /\ disk.balance = balance
            /\ disk.portfolio = portfolio
            /\ disk.trades = JsonList(LastN(trades, trades_kept))]_vars

\* C15: what a cycle of the loop does to balance, positions and trade log
\* is what it would do if every decision used the price map the cycle
\* fetched at its start.
CycleUsesOnePriceMap ==
    [][(/\ threads.loop \in InFlight /\ threads'.loop \notin InFlight
        /\ threads'.raised = threads.raised) =>
            LET own == CycleFinish(Self, threads.frame.analysis, threads.frame.prices,
                                   threads.frame.prices, history, now)
            IN /\ balance' = own.balance
               /\ portfolio' = own.portfolio
               /\ trades' = own.trades]_vars

\* C16: every step that changes balance, positions or trade log of a trader
\* is a step of the trading loop.
OnlyTheLoopMutatesPortfolio ==
    [][<<balance, portfolio, trades, BotPortfolio>>' # <<balance, portfolio, trades, BotPortfolio>>
          => threads'.loop # threads.loop]_vars
\* C17: at every instant the summary reports totalValue = balance + the sum
\* of shares x currentPrice over the open positions, invested = totalValue -
\* balance, and positionCount = the number of open positions, also when the
\* price of a held ticker is unavailable.
SummaryTotals ==
    LET summary == GetPortfolioSummary(balance, portfolio, GetCurrentPrices(market),
                                       initial_balance)
        value(i) == IF market[portfolio[i].ticker] = NoPrice THEN 0
                    ELSE portfolio[i].shares * market[portfolio[i].ticker] * Milli
    IN /\ summary.total_value = balance + SumSeq([i \in DOMAIN portfolio |-> value(i)])
       /\ summary.invested = summary.total_value - balance
       /\ summary.position_count = Len(portfolio)
\* C18: a Sell signal with an open position sets the position to zero, and
\* when run returns no position remains: a position held after the last bar
\* is closed by one sell at the last close, commission taken, tagged
\* "SELL (close)", and final_equity is the capital after that sale (the sale
\* is of the whole position; the local variable position is not used again).
BacktestLiquidates ==
    [][/\ (/\ backtest.stage = "running" /\ backtest'.stage = "running"
           /\ backtest.signals[backtest.i] = -1 /\ backtest.position > 0) =>
            /\ backtest'.position = 0
            /\ backtest'.capital = backtest.capital
                  + backtest.position * backtest.bars[backtest.i] * 997
       /\ (backtest.stage = "running" /\ backtest'.stage = "done") =>
            LET close == backtest.bars[Len(backtest.bars)] IN
            /\ backtest'.final_equity = backtest'.capital
            /\ IF backtest.position > 0
               THEN /\ backtest'.capital = backtest.capital + backtest.position * close * 997
                    /\ Len(backtest'.trades) = Len(backtest.trades) + 1
                    /\ backtest'.trades[Len(backtest'.trades)].action = "SELL (close)"
                    /\ backtest'.trades[Len(backtest'.trades)].price = close
                    /\ backtest'.trades[Len(backtest'.trades)].shares = backtest.position
               ELSE /\ backtest'.capital = backtest.capital
                    /\ backtest'.trades = backtest.trades]_vars

\* a run returned after closing the position left by a buy on an earlier bar
BacktestForcedClose ==
    /\ backtest.stage = "done"
    /\ Len(backtest.trades) >= 2
    /\ backtest.trades[Len(backtest.trades)].action = "SELL (close)"
    /\ backtest.trades[Len(backtest.trades)].shares >= 1
    /\ backtest.trades[Len(backtest.trades) - 1].date < Len(backtest.bars)
    /\ backtest.final_equity = backtest.capital

\* C19: a Buy signal with capital > 0 buys floor(capital x 0.95 / price)
\* shares, committed only if shares x price x 1.003 <= capital; capital >= 0
\* and position >= 0 at every bar, and the equity recorded for a bar is
\* capital + position x close of that bar.
BacktestBuyRule ==
    [][(backtest.stage = "running" /\ backtest'.stage = "running") =>
        LET price == backtest.bars[backtest.i]
            shares == (backtest.capital * 19) \div (20 * price * Milli)
            cost == shares * price * 1003
        IN /\ (backtest.signals[backtest.i] = 1 /\ backtest.capital > 0) =>
                 IF cost <= backtest.capital
                 THEN /\ backtest'.position = backtest.position + shares
                      /\ backtest'.capital = backtest.capital - cost
                 ELSE /\ backtest'.position = backtest.position
                      /\ backtest'.capital = backtest.capital
           /\ backtest'.capital >= 0
           /\ backtest'.position >= 0
           /\ backtest'.equity_curve[backtest.i].equity =
                 backtest'.capital + backtest'.position * price * Milli]_vars

\* a bar with a Buy signal bought shares on top of capital left from a sale
BacktestBoughtAfterSale ==
    /\ backtest.stage = "running"
    /\ Len(backtest.trades) >= 3
    /\ backtest.trades[Len(backtest.trades)].action = "BUY"
    /\ backtest.trades[Len(backtest.trades)].shares >= 1
    /\ backtest.trades[Len(backtest.trades) - 1].action = "SELL"
    /\ backtest.position = backtest.trades[Len(backtest.trades)].shares
\* C20: for every recommendation object the candidate list has at most 7
\* entries, holds each ticker at most once, and is in order of
\* non-increasing confidence.
CandidatesDeduplicated ==
    aggregator.stage = "done" =>
        LET c == aggregator.candidates IN
        /\ Len(c) <= 7
        /\ \A i, j \in DOMAIN c : i # j => c[i].ticker # c[j].ticker
        /\ \A i \in DOMAIN c : i < Len(c) => c[i].confidence >= c[i + 1].confidence

(***************************************************************************)
(* Properties of single _buy and _sell calls.  In a step of SpecCalls the  *)
(* unprimed variables are the trader before the call, observed'.call holds *)
(* the arguments, and the primed variables are the trader after it.        *)
(***************************************************************************)
LastTrade == trades[Len(trades)]

Committed == Len(trades') = Len(trades) + 1

OrderFrame == UNCHANGED <<balance, portfolio, highest_price, trades>>

\* C24: a _buy is rejected when the value of the held position at the buy
\* price is already at or above 45% of the portfolio value, and after a
\* committed _buy the value of the position at the buy price is at most the
\* 45% cap computed before that buy.
BuyRespectsPositionCap ==
    [][observed'.call.op = "buy" =>
        LET t == observed'.call.ticker
            price == observed'.call.price
            cap_x100 == GetPortfolioValue(balance, portfolio, market) * max_position_size_pct
        IN /\ SharesOf(portfolio, t) * price * Milli * 100 >= cap_x100 => OrderFrame
           /\ Committed => SharesOf(portfolio', t) * price * Milli * 100 <= cap_x100]_vars

\* a buy of a ticker whose position had reached the cap was rejected
BuyRejectedAtCap ==
    /\ observed.call.op = "buy"
    /\ observed.stage = "rejected"
    /\ Held(portfolio, observed.call.ticker)
    /\ PositionCapReached(balance, portfolio, observed.call.ticker,
                          observed.call.price, market)

\* C25: a committed _buy with amount X buys floor(available / price) shares,
\* available = min(X, cap - value of the held position, balance), or
\* floor(0.9 x balance / price) shares when cost + fee of the first count
\* exceed the balance; cost = shares x price, fee = 0.003 x cost, and the
\* balance falls by exactly cost + fee.
BuySizing ==
    [][(observed'.call.op = "buy" /\ Committed) =>
        LET c == observed'.call
            X == IF c.max_amount = NoAmount
                 THEN FracFloor(balance, 3 * c.confidence, 1000)
                 ELSE c.max_amount
            cap == (GetPortfolioValue(balance, portfolio, market) * 45) \div 100
            room == cap - SharesOf(portfolio, c.ticker) * c.price * Milli
            available == Min2(Min2(X, room), balance)
            first == available \div (c.price * Milli)
            shares == IF first * c.price * (Milli + 3) > balance
                      THEN ((balance * 9) \div 10) \div (c.price * Milli)
                      ELSE first
            trade == trades'[Len(trades')]
        IN /\ trade.action = "BUY"
           /\ trade.shares = shares
           /\ trade.cost = shares * c.price * Milli
           /\ trade.fee = shares * c.price * 3
           /\ balance' = balance - trade.cost - trade.fee
           /\ SharesOf(portfolio', c.ticker) = SharesOf(portfolio, c.ticker) + shares]_vars

\* a buy whose first share count did not fit the balance with its fee was
\* committed with the count of the 0.9 fallback, after two buys that the
\* amount and the position cap sized
BuySizedByFallback ==
    /\ observed.call.op = "buy"
    /\ observed.stage = "buy_fallback"
    /\ Len(trades) = 3
    /\ LastTrade.action = "BUY"
    /\ LastTrade.balance_after = balance

\* C26: _sell resolves the number of shares by priority: sell_all sells
\* the whole holding also when a count is given; else a given count is
\* clamped to the holding; else confidence > 0.9 sells all, > 0.7 the floor
\* of 70% and anything else the floor of 50%; never more than is held.
SellResolution ==
    [][observed'.call.op = "sell" =>
        LET c == observed'.call
            held == SharesOf(portfolio, c.ticker)
            want == IF c.sell_all THEN held
                    ELSE IF c.shares # NoShares THEN Min2(c.shares, held)
                    ELSE IF c.confidence > 90 THEN held
                    ELSE IF c.confidence > 70 THEN (held * 7) \div 10
                    ELSE held \div 2
            sold == held - SharesOf(portfolio', c.ticker)
        IN /\ sold = want
           /\ sold <= held
           /\ sold > 0 => (Committed /\ trades'[Len(trades')].shares = sold)]_vars

\* C27: a rejected order changes nothing: a _buy rejected for the position
\* cap, a lot below 10 shares or zero shares, and a _sell of a ticker that
\* is not held or of zero shares, leave balance, positions, high-water
\* marks and trade log as they were; every committed order appends exactly
\* one trade, whose balance_after is the balance after the commit.
RejectedOrderIsNoOp ==
    [][observed'.call.op \in {"buy", "sell"} =>
        LET c == observed'.call
            cap_x100 == GetPortfolioValue(balance, portfolio, market) * max_position_size_pct
            at_cap == SharesOf(portfolio, c.ticker) * c.price * Milli * 100 >= cap_x100
            small_lot == Min2(Min2(IF c.max_amount = NoAmount
                                   THEN FracFloor(balance, 3 * c.confidence, 1000)
                                   ELSE c.max_amount,
                                   cap_x100 \div 100
                                       - SharesOf(portfolio, c.ticker) * c.price * Milli),
                              balance) < c.price * Milli * 10
            rejected == IF c.op = "buy" THEN at_cap \/ small_lot
                        ELSE \/ ~Held(portfolio, c.ticker)
                             \/ (~c.sell_all /\ c.shares = 0)
        IN /\ rejected => OrderFrame
           /\ \/ OrderFrame
              \/ /\ Committed
                 /\ SubSeq(trades', 1, Len(trades)) = trades
                 /\ trades'[Len(trades')].balance_after = balance'
                 /\ trades'[Len(trades')].ticker = c.ticker
                 /\ balance' # balance]_vars

\* a buy was rejected because its lot would be below ten shares
BuyRejectedForSmallLot ==
    /\ observed.call.op = "buy"
    /\ observed.stage = "rejected"
    /\ ~PositionCapReached(balance, portfolio, observed.call.ticker,
                           observed.call.price, market)
    /\ portfolio # <<>>

(***************************************************************************)
(* Properties of the allocation of one cycle.  In a cycle step of          *)
(* SpecAllocator the unprimed variables are the trader and the             *)
(* collaborators at the start of the cycle, and observed'.call.analysis is *)
(* the recommendation object.                                              *)
(***************************************************************************)
\* the entries of the last cycle: the trades of its BUY and HOLD loops
EntryTrades == SubSeq(trades, observed.first_trade, observed.entry_trades)

RECURSIVE Spent(_)
Spent(ts) == IF ts = <<>> THEN 0 ELSE Head(ts).cost + Head(ts).fee + Spent(Tail(ts))

\* the indicator snapshot the engine obtains for ticker t now
Snapshot(t) == GetHistoryDf(price_history_cache, t, history, now).df

FilterPasses(t) ==
    /\ Snapshot(t) # NoDf
    /\ Snapshot(t).RSI # NaN
    /\ Snapshot(t).RSI < 70

\* C21: the entries of one cycle never spend more than investCapital =
\* 0.8 x the balance at the start of the cycle.
EntriesWithinInvestCapital ==
    [][observed'.call.op = "cycle" =>
        Spent(EntryTrades') * 100 <= balance * invest_fraction_pct]_vars

\* C22: a cycle commits no buy for a candidate whose technical filter fails
\* (no snapshot, RSI undefined, RSI >= 70): neither in the BUY loop nor in
\* the HOLD loop, with no reduced amount either.
FilteredCandidateNotBought ==
    [][observed'.call.op = "cycle" =>
        \A i \in DOMAIN EntryTrades' : FilterPasses(EntryTrades'[i].ticker)]_vars

\* SBER, ranked first, failed the filter and GAZP, ranked after it, was bought
BoughtAfterFilteredCandidate ==
    /\ observed.call.op = "cycle"
    /\ Len(observed.call.analysis.top_picks) = 2
    /\ observed.call.analysis.top_picks[1] = [ticker |-> "SBER", action |-> "BUY", confidence |-> 80]
    /\ market["SBER"] # NoPrice
    /\ ~FilterPasses("SBER")
    /\ ~Held(portfolio, "SBER")
    /\ Len(EntryTrades) = 1
    /\ EntryTrades[1].ticker = "GAZP"
    /\ EntryTrades[1].action = "BUY"

\* the cycle as it would run if ticker t had the price 100
CycleWithPrice(analysis, t) ==
    CycleFinish(CycleBegin(Self), analysis, [market EXCEPT ![t] = 100],
                [market EXCEPT ![t] = 100], history, now)

\* C23: a ticker without a current price or without an indicator snapshot
\* gets no buy and no sell in the cycle and keeps its high-water mark; the
\* cycle completes; and the positions in other tickers that the cycle would
\* evaluate if the price were there are evaluated all the same.
FetchFailureIsLocal ==
    [][observed'.call.op = "cycle" =>
        /\ \A t \in AllocTickers :
              (market[t] = NoPrice \/ Snapshot(t) = NoDf) =>
                /\ \A i \in DOMAIN CycleTrades' : CycleTrades'[i].ticker # t
                /\ (t \in DOMAIN highest_price') = (t \in DOMAIN highest_price)
                /\ t \in DOMAIN highest_price => highest_price'[t] = highest_price[t]
        /\ Len(performance_history') = Len(performance_history) + 1
        /\ \A t \in AllocTickers : market[t] = NoPrice =>
              \A u \in DOMAIN CycleWithPrice(observed'.call.analysis, t).evaluated :
                  u # t => u \in DOMAIN observed'.evaluated]_vars

\* C28: after any number of cycles and trades the trade log of the engine
\* holds at most the last 100 trades and its performance history at most
\* the last 100 snapshots.
LogsBounded ==
    /\ Len(trades) <= trades_kept
    /\ Len(performance_history) <= performance_cap

\* the frame _get_history_df computes from what the history collaborator
\* returns for ticker t now: None below 20 bars
Computed(t) == IF history[t].bars < min_history_bars THEN NoDf ELSE history[t]

\* C29: a request for the indicator snapshot of a ticker made less than the
\* TTL (3600 s) after the last successful computation for that ticker
\* returns the cached snapshot without calling the history collaborator and
\* leaves the cache as it is; a request at or after the TTL, or with nothing
\* cached, fetches the history and returns what is computed from it.
CachedWithinTTL ==
    [][\A t \in AllocTickers :
         (observed'.call.op = "history_df" /\ observed'.call.ticker = t)
         => IF t \in DOMAIN price_history_cache
               /\ now - price_history_cache[t].time < history_cache_ttl
            THEN /\ ~observed'.call.fetched
                 /\ observed'.call.df = price_history_cache[t].df
                 /\ price_history_cache' = price_history_cache
            ELSE /\ observed'.call.fetched
                 /\ observed'.call.df = Computed(t)
                 /\ Computed(t) # NoDf =>
                        /\ t \in DOMAIN price_history_cache'
                        /\ price_history_cache'[t] = [time |-> now, df |-> Computed(t)]
                 /\ Computed(t) = NoDf => price_history_cache' = price_history_cache]_vars

\* a request one second before the TTL has passed answered from the cache
\* although the history collaborator would now return another frame
StaleSnapshotServed ==
    /\ observed.call.op = "history_df"
    /\ ~observed.call.fetched
    /\ now - price_history_cache[observed.call.ticker].time = history_cache_ttl - 1
    /\ observed.call.df # Computed(observed.call.ticker)

\* the position in t is open before and after the step, no trade of the
\* step sold from it, and a new process found it in the state file
StaysOpen(t) ==
    /\ Held(portfolio, t)
    /\ Held(portfolio', t)
    /\ \A i \in observed'.first_trade..Len(trades') :
          ~(trades'[i].ticker = t /\ trades'[i].action = "SELL")
    /\ restarts' # restarts =>
          (disk.exists /\ ~JsonLoadRaises(disk) /\ disk.portfolio = portfolio)

\* C30: in every reachable state a high-water mark exists only for tickers
\* with an open position, and while a position stays open its high-water
\* mark never decreases.
HighWaterMarkLifetime ==
    /\ [](DOMAIN highest_price \subseteq Keys(portfolio))
    /\ [][\A t \in Tickers :
             (t \in DOMAIN highest_price /\ t \in DOMAIN highest_price' /\ StaysOpen(t))
             => highest_price'[t] >= highest_price[t]]_vars

\* the sells of ticker t with the given reason that the step committed
StepSells(t, reason) ==
    SelectSeq(SubSeq(trades', observed'.first_trade, Len(trades')),
              LAMBDA tr : tr.ticker = t /\ tr.action = "SELL" /\ tr.reason = reason)

\* the step is a call of _check_positions that evaluated the rules on t
Evaluated(t) ==
    /\ observed'.call = CheckCall
    /\ t \in DOMAIN observed'.evaluated

\* C31: when the MA5-break rule and the RSI-overbought rule both fire on the
\* same position in one cycle, the RSI rule sells floor(0.3 x the shares
\* that remain after the MA5 sale of floor(0.4 x held)).
RsiSellsOfRemaining ==
    [][\A t \in Tickers :
         (Evaluated(t) /\ StepSells(t, "ma5_break") # <<>>
                       /\ observed'.evaluated[t].df.RSI > sell_rsi_overbought)
         => LET held == SharesOf(portfolio, t)
                ma5 == StepSells(t, "ma5_break")
                rsi == StepSells(t, "rsi_overbought")
                remaining == held - ma5[1].shares
            IN /\ Len(ma5) = 1
               /\ ma5[1].shares = IntPct(held, sell_ma5_fraction_pct)
               /\ IF IntPct(remaining, sell_rsi_fraction_pct) > 0
                  THEN Len(rsi) = 1
                       /\ rsi[1].shares = IntPct(remaining, sell_rsi_fraction_pct)
                  ELSE rsi = <<>>]_vars

FullExitReasons == {"ma20_break", "trailing_stop", "stop_loss"}

\* the sells of ticker t by a full-exit rule that the step committed
StepFullExits(t) ==
    SelectSeq(SubSeq(trades', observed'.first_trade, Len(trades')),
              LAMBDA tr : tr.ticker = t /\ tr.action = "SELL"
                          /\ tr.reason \in FullExitReasons)

\* C32: the partial-exit rules (MA5 break and RSI overbought), alone or both
\* in the same cycle, never close a position: they sell fewer shares than
\* are held, and when no full-exit rule fires the position still holds at
\* least one share at an unchanged avgPrice.
PartialExitsKeepOpen ==
    [][\A t \in Tickers :
         (Evaluated(t) /\ StepSells(t, "ma5_break") \o StepSells(t, "rsi_overbought") # <<>>)
         => LET held == SharesOf(portfolio, t)
                sold == SumSeq([i \in DOMAIN StepSells(t, "ma5_break") |->
                                   StepSells(t, "ma5_break")[i].shares])
                        + SumSeq([i \in DOMAIN StepSells(t, "rsi_overbought") |->
                                     StepSells(t, "rsi_overbought")[i].shares])
            IN /\ sold >= 1
               /\ sold < held
               /\ StepFullExits(t) = <<>> =>
                     /\ Held(portfolio', t)
                     /\ SharesOf(portfolio', t) = held - sold
                     /\ SharesOf(portfolio', t) >= 1
                     /\ PosOf(portfolio', t).avg_price = PosOf(portfolio, t).avg_price]_vars

\* both partial rules fired on a position of 4 shares, which keeps 2
BothPartialExitsLeaveTwo ==
    /\ observed.call = CheckCall
    /\ \E i \in observed.first_trade..Len(trades), j \in observed.first_trade..Len(trades) :
          /\ trades[i].reason = "ma5_break" /\ trades[i].shares = 1
          /\ trades[j].reason = "rsi_overbought" /\ trades[j].shares = 1
          /\ trades[i].ticker = trades[j].ticker
          /\ SharesOf(portfolio, trades[i].ticker) = 2

\* every sell of ticker t that the step committed, in order
StepSellsOf(t) ==
    SelectSeq(SubSeq(trades', observed'.first_trade, Len(trades')),
              LAMBDA tr : tr.ticker = t /\ tr.action = "SELL")

\* C33: for each ticker at most one full-exit Sell (MA20 break, trailing
\* stop or stop-loss) is committed per cycle, it sells every share left,
\* closes the position, and no Sell of that ticker follows it; a trailing
\* stop that fires where the stop-loss condition holds too is the only exit.
OneFullExitPerCycle ==
    [][observed'.call = CheckCall =>
        \A t \in Tickers :
            LET sells == StepSellsOf(t)
                full == StepFullExits(t)
            IN /\ Len(full) <= 1
               /\ full # <<>> =>
                     /\ sells[Len(sells)] = full[1]
                     /\ SumSeq([i \in DOMAIN sells |-> sells[i].shares])
                            = SharesOf(portfolio, t)
                     /\ ~Held(portfolio', t)
                     /\ t \notin DOMAIN highest_price']_vars

\* a trailing stop fired at a price that is also more than 5% below avgPrice
TrailingStopBeforeStopLoss ==
    /\ observed.call = CheckCall
    /\ \E t \in DOMAIN observed.evaluated :
          /\ observed.evaluated[t].rule = "trailing_stop"
          /\ StopLossHit(observed.evaluated[t].avg_price, observed.evaluated[t].price)
          /\ trades[Len(trades)].reason = "trailing_stop"
          /\ ~Held(portfolio, t)

\* C34: a stop persists across a restart: when the state file was saved
\* with the trading flag down, the engine constructed from it has the flag
\* down and has run no cycle: trades, balance and positions are those of
\* the file.
StopSurvivesRestart ==
    [][(restarts' = restarts + 1 /\ disk.exists /\ ~JsonLoadRaises(disk)
                                 /\ ~disk.is_trading)
        => /\ ~is_trading'
           /\ trades' = disk.trades
           /\ balance' = disk.balance
           /\ portfolio' = disk.portfolio]_vars

\* the trades of ticker t with the given action that the step committed
StepTradesOf(t, action) ==
    SelectSeq(SubSeq(trades', observed'.first_trade, Len(trades')),
              LAMBDA tr : tr.ticker = t /\ tr.action = action)

\* C35: within one cycle no ticker is both bought in the entry phase and
\* sold in the exit phase.
NoBuyAndSellInOneCycle ==
    [][cycles' = cycles + 1 =>
        \A t \in Tickers :
            StepTradesOf(t, "BUY") = <<>> \/ StepTradesOf(t, "SELL") = <<>>]_vars

\* C36: every committed Buy purchases at least 10 shares, also when the
\* share count is recomputed by the 0.9 safety-factor fallback.
EveryBuyIsAFullLot ==
    \A i \in DOMAIN trades :
        trades[i].action = "BUY" => trades[i].shares >= min_lot_shares

\* balance + shares x price of the position in t, in thousandths
ValueAt(bal, pf, t, price) == bal + SharesOf(pf, t) * price * Milli

\* C37: every committed Buy or Sell at price p changes the portfolio value
\* (balance + shares x price, the traded ticker valued at p, the other
\* positions unchanged) by exactly minus the fee of that trade, which is
\* 0.003 x shares x p.
TradeCostsItsFee ==
    [][(observed'.call.op \in {"buy", "sell"} /\ Committed) =>
        LET t == observed'.call.ticker
            price == observed'.call.price
            traded == trades'[Len(trades')].shares
            fee == traded * price * trade_fee_milli
        IN /\ traded >= 1
           /\ trades'[Len(trades')].fee = fee
           /\ SharesOf(portfolio', t) =
                 SharesOf(portfolio, t) + (IF observed'.call.op = "buy" THEN traded ELSE -traded)
           /\ \A u \in OrderTickers \ {t} :
                 /\ Held(portfolio', u) = Held(portfolio, u)
                 /\ Held(portfolio, u) => PosOf(portfolio', u) = PosOf(portfolio, u)
           /\ ValueAt(balance', portfolio', t, price)
                 = ValueAt(balance, portfolio, t, price) - fee]_vars

\* a partial sell was committed while another ticker is held
PartialSellBesideAnotherPosition ==
    /\ observed.call.op = "sell"
    /\ observed.stage = "sell"
    /\ Held(portfolio, observed.call.ticker)
    /\ Len(portfolio) >= 2

\* C38: the final_equity that Backtester.run returns equals the equity of
\* the last point of the returned equity_curve, also for a series that ends
\* with an open position.
FinalEquityIsLastCurvePoint ==
    backtest.stage = "done" =>
        backtest.final_equity = backtest.equity_curve[Len(backtest.equity_curve)].equity

\* C39: every BUY trade recorded by the Backtester has shares >= 1.
BacktestBuysAtLeastOneShare ==
    \A i \in DOMAIN backtest.trades :
        backtest.trades[i].action = "BUY" => backtest.trades[i].shares >= 1
====
